---- MODULE Spec2Model ----
(***************************************************************************)
(* The RSS ingestion pipeline of backend/services/rss_ingest.py as a state *)
(* machine over the relational store created by backend/scripts/init_db.py.*)
(*                                                                         *)
(* Time is counted in minutes.  A run of run_rss_ingest takes seconds (it  *)
(* is written for a 10 second platform ceiling), so the clock advances     *)
(* only between runs.  Every database transaction of the code is one       *)
(* action, except the PERSIST session, whose statements are separate       *)
(* actions writing to a pending set that PersistCommit makes visible.      *)
(***************************************************************************)
EXTENDS Integers, Sequences, FiniteSets, TLC

(* ---------------------------- bounds ----------------------------------- *)
MaxRuns == 2
MaxTicks == 1
MaxItems == 2
MaxConcRuns == 2
MaxHttpRuns == 1
MaxCallers == 3
MaxMinute == 5
MaxRequests == 11
MaxOtherRequests == 1
NumPoolFeeds == 7

(* ------------------------ program constants ---------------------------- *)
MAX_WORKERS == 6
FETCH_RETRIES == 3
FETCH_TIMEOUT == 5
RATE_LIMIT_MAX_REQUESTS == 10
RATE_LIMIT_WINDOW_MINUTES == 5
ITEMS_RETENTION_DAYS == 7
RUNS_RETENTION_DAYS == 30
ERRORS_RETENTION_DAYS == 30

MinutesPerDay == 24 * 60
Days(n) == n * MinutesPerDay

NULL == "null"
NoTime == -1
NoStatus == 0
NoRow == [absent |-> TRUE]
NoResult == [kind |-> "none"]

Procs == {1, 2}
FeedIds == {"a", "b"}

(* ------------------------- feeds.json ---------------------------------- *)
\* An entry of "feeds" with its required keys id, name, url and the
\* optional category, language and enabled.
FeedEntry(id, name, enabled) ==
    [id |-> id, name |-> name, url |-> id, category |-> NULL, language |-> NULL,
     enabled |-> enabled]
FeedConfig(id, enabled) == FeedEntry(id, id, enabled)
CfgAB == <<FeedConfig("a", TRUE), FeedConfig("b", TRUE)>>
CfgA == <<FeedConfig("a", TRUE)>>
CfgAoffB == <<FeedConfig("a", TRUE), FeedConfig("b", FALSE)>>
Configs == {CfgAB, CfgA, CfgAoffB}

\* A feeds.json that parses, with an enabled feed entry that has no "name".
CfgNoName ==
    <<FeedConfig("a", TRUE),
      [id |-> "b", url |-> "b", category |-> NULL, language |-> NULL,
       enabled |-> TRUE, missing |-> "name"]>>
\* rss_ingest.py:126-128  feed_data["id"], feed_data["name"], feed_data["url"]
WellFormed(fd) == "missing" \notin DOMAIN fd
\* A feeds.json that is absent, and one that is not JSON.
LoadFaults == {"config_missing", "config_malformed"}

(* ------------------------- feed bodies --------------------------------- *)
Entry(t, l, s, p) == [title |-> t, link |-> l, summary |-> s, published |-> p]
E1 == Entry("t1", "u1", "s1", "p1")
E1b == Entry("t1b", "u1", NULL, NULL)
E2 == Entry("t2", "u2", NULL, NULL)
ENoTitle == Entry("", "u3", "s3", NULL)

\* Three valid entries, the first two with the same link.
BodyDup == <<E1, E1b, E2>>
\* An entry without a title ahead of two valid ones.
BodyBad == <<ENoTitle, E2, E1>>
Bodies == {BodyDup, BodyBad}
\* The same two links in opposite orders, for overlapping runs.
BodyFwd == <<E1, E2>>
BodyRev == <<E2, E1b>>

Response(status, bozo, entries, etag, lm) ==
    [kind |-> "response", status_code |-> status, bozo |-> bozo,
     entries |-> entries, etag |-> etag, last_modified |-> lm]
FetchError(msg) == [kind |-> "error", error |-> msg]

\* A 200 response; BodyDup comes with validators, BodyBad without.
Ok200(body) ==
    IF body = BodyDup THEN Response(200, FALSE, body, "e1", "m1")
    ELSE Response(200, FALSE, body, NULL, NULL)
Malformed200 == Response(200, TRUE, <<>>, NULL, NULL)
NotModified304 == Response(304, FALSE, <<>>, NULL, NULL)
NotFound404 == Response(404, FALSE, <<>>, NULL, NULL)

Outcomes ==
    {Ok200(b) : b \in Bodies}
        \cup {Malformed200, NotModified304, NotFound404,
              FetchError("Request timeout"), FetchError("HTTP 503 after 3 attempts")}
ConcOutcomes == {Response(200, FALSE, BodyFwd, "e1", "m1"),
                 Response(200, FALSE, BodyRev, "e2", NULL),
                 NotModified304}

(* --------------------------- state ------------------------------------- *)
VARIABLES
    feeds,            \* table feeds: FeedIds -> row or NoRow
    items,            \* table items: set of rows
    runs,             \* table runs: set of rows
    errors,           \* table feed_run_errors: set of rows
    rateLimitsTable,  \* whether table rate_limits exists
    clock,            \* now(), in minutes
    ids,              \* next generated id per table
    proc,             \* one record per run_rss_ingest invocation slot
    started,          \* invocations started so far
    ticks,            \* clock advances so far
    http,             \* the HTTP request being served and its response
    call,             \* one call of fetch_rss_feed: its loop and its result
    pool,             \* the executor of one FETCH phase and its tasks
    gemini,           \* the process's Gemini client and the handlers using it
    limiter           \* table rate_limits and the rate limit checks under way

vars == <<feeds, items, runs, errors, rateLimitsTable, clock, ids, proc,
          started, ticks, http, call, pool, gemini, limiter>>

store == <<feeds, items, runs, errors>>

\* Everything run_rss_ingest reads or writes.
ingest == <<feeds, items, runs, errors, rateLimitsTable, clock, ids, proc,
            started, ticks>>

\* No call of fetch_rss_feed under way.
NoCall ==
    [pc |-> "none", attempt |-> 0, last_exception |-> NULL,
     last_response |-> NoStatus, slept |-> <<>>, trace |-> <<>>,
     result |-> NoResult, timeout |-> 0, elapsed |-> 0]

\* services.py:20  _client = None
NoClient == 0
\* The handlers of /api/generate-image of one process.
Callers == 1..MaxCallers
\* The process before its first request: no client, no handler.
NoGemini ==
    [pc |-> "down", api_key |-> FALSE, client |-> NoClient, constructed |-> 0,
     running |-> 0, first_users |-> {},
     callers |-> [c \in Callers |-> [pc |-> "none", new |-> NoClient, got |-> NoClient]]]

\* The client addresses, the minutes of the model's time, and the server
\* instances that share the database.
IPs == {"ip1", "ip2"}
Minutes == 0..MaxMinute
Instances == {1, 2}
\* No call of _check_rate_limit under way in an instance.
NoCheck == [pc |-> "none", ip |-> NULL, tx_now |-> 0]
\* Table rate_limits without rows (rows counted per address and
\* requested_at), no request yet, no check under way.
NoLimiter ==
    [rows |-> [k \in IPs \X Minutes |-> 0],
     now |-> 0,
     requests |-> [ip \in IPs |-> 0],
     checks |-> [p \in Instances |-> NoCheck]]

\* The enabled feeds of a FETCH phase with more feeds than workers.
PoolFeeds == 1..NumPoolFeeds
\* The response of a (response, error) result whose fetch failed.
NoResponse == [absent |-> TRUE]

\* No FETCH phase under way: no executor, no task, no result.
NoPool ==
    [pc |-> "none", submitted |-> 0, saturated |-> FALSE,
     dispatched |-> [k \in PoolFeeds |-> 0],
     task |-> [k \in PoolFeeds |-> "none"],
     returned |-> [k \in PoolFeeds |-> NoResult],
     fetch_results |-> [k \in PoolFeeds |-> NoResult]]

\* A header that the request does not carry.
NoHeader == [absent |-> TRUE]

\* No request received.
NoRequest ==
    [route |-> "none", authorization |-> NoHeader, x_cron_secret |-> NULL,
     CRON_SECRET |-> NULL, DEBUG_MODE |-> FALSE, seq |-> 0, response |-> NoStatus]

\* No ETag and no Last-Modified.
NoValidators == [etag |-> NULL, last_modified |-> NULL]

NoTx == [items |-> {}, feeds |-> [f \in FeedIds |-> NoRow], errors |-> {}]
NoSummary == [absent |-> TRUE]

IdleProc ==
    [pc |-> "idle", config |-> <<>>, enabled_feeds |-> <<>>, total_feeds |-> 0,
     run_id |-> 0,
     feed_metadata |-> [f \in FeedIds |-> NoRow],
     fetch_results |-> [f \in FeedIds |-> NoResult],
     i |-> 1, j |-> 1, inserted |-> 0,
     feeds_succeeded |-> 0, feeds_failed |-> 0, items_inserted |-> 0,
     status |-> "none",
     tx |-> NoTx, summary |-> NoSummary,
     \* the Session(engine) block the invocation is in, if any
     session |-> "none",
     \* the exception, if any, that a step of this invocation met
     fault |-> "none",
     \* history: the upserts executed, the store and the outcome of the
     \* previous invocation as they were when this one was called
     writes |-> <<>>, startItems |-> {},
     \* history of the open PERSIST session: the feeds in the order their
     \* fetches completed, and the statements executed, as <<feed, table>>
     completed |-> <<>>, log |-> <<>>,
     \* history: the candidates whose upsert failed, as <<feed, entry>>
     skipped |-> <<>>,
     \* history: the conditional headers sent for each feed, and the ETag
     \* and Last-Modified of each feed's latest committed 200 outcome
     request_headers |-> [f \in FeedIds |-> NoRow],
     last200 |-> [f \in FeedIds |-> NoValidators],
     startFeeds |-> [f \in FeedIds |-> NoRow],
     prev |-> [config |-> <<>>, fetch_results |-> [f \in FeedIds |-> NoResult]]]

Init ==
    /\ feeds = [f \in FeedIds |-> NoRow]
    /\ items = {}
    /\ runs = {}
    /\ errors = {}
    /\ rateLimitsTable \in BOOLEAN
    /\ clock = 0
    /\ ids = [item |-> 1, run |-> 1, error |-> 1]
    /\ proc = [r \in Procs |-> IdleProc]
    /\ started = 0
    /\ ticks = 0
    /\ http = NoRequest
    /\ call = NoCall
    /\ pool = NoPool
    /\ gemini = NoGemini
    /\ limiter = NoLimiter

(* --------------------------- helpers ----------------------------------- *)
Range(s) == {s[k] : k \in DOMAIN s}
Min(a, b) == IF a < b THEN a ELSE b

OtherProcs(r) == Procs \ {r}

\* A filter that takes every feed of the configuration as enabled.
EnabledFeedsAll(config) == config

\* rss_ingest.py:492  enabled_feeds
EnabledFeeds(config) == SelectSeq(config, LAMBDA f : f.enabled)
\* rss_ingest.py:494  config_feed_ids
ConfigFeedIds(config) == {config[k].id : k \in DOMAIN config}

\* Rows of other sessions' open PERSIST transactions (row locks).
LockedItemKeys(r) ==
    {<<it.feed_id, it.url>> : it \in UNION {proc[q].tx.items : q \in OtherProcs(r)}}
LockedFeeds(r) ==
    {f \in FeedIds : \E q \in OtherProcs(r) :
        \/ proc[q].tx.feeds[f] # NoRow
        \/ \E it \in proc[q].tx.items : it.feed_id = f
        \/ \E e \in proc[q].tx.errors : e.feed_id = f}


(* ------------------------- SQL statements ------------------------------ *)
NewFeedRow(fd) ==
    [id |-> fd.id, name |-> fd.name, url |-> fd.url,
     category_default |-> fd.category, language |-> fd.language,
     enabled |-> fd.enabled, etag |-> NULL,
     last_modified |-> NULL, last_fetched_at |-> NoTime]

\* An upsert that replaces the whole row on conflict.
upsert_feed_replace(tbl, fd) == [tbl EXCEPT ![fd.id] = NewFeedRow(fd)]

\* rss_ingest.py:112  INSERT INTO feeds ... ON CONFLICT (id) DO UPDATE
upsert_feed(tbl, fd) ==
    [tbl EXCEPT ![fd.id] =
        IF @ = NoRow THEN NewFeedRow(fd)
        ELSE [@ EXCEPT !.name = fd.name, !.url = fd.url,
                       !.category_default = fd.category,
                       !.language = fd.language, !.enabled = fd.enabled]]

\* rss_ingest.py:136  UPDATE feeds SET etag, last_modified, last_fetched_at
update_feed_metadata(row, etag, last_modified, now) ==
    IF row = NoRow THEN NoRow
    ELSE [row EXCEPT !.etag = etag, !.last_modified = last_modified,
                     !.last_fetched_at = now]

\* rss_ingest.py:155  SELECT etag, last_modified FROM feeds
get_feed_metadata(tbl, feed_id) ==
    IF tbl[feed_id] # NoRow
    THEN [etag |-> tbl[feed_id].etag, last_modified |-> tbl[feed_id].last_modified]
    ELSE [etag |-> NULL, last_modified |-> NULL]

\* An assignment that takes the new value even when it is null.
CoalesceOverwrite(new, old) == new

\* rss_ingest.py:198-200  COALESCE(EXCLUDED.x, items.x)
Coalesce(new, old) == IF new # NULL THEN new ELSE old

\* A table without the unique index: nothing ever conflicts.
ConflictRowsNoIndex(rows, feed_id, url) == {}

\* The arbiter of ON CONFLICT (feed_id, url): init_db.py:114 unique index.
ConflictRows(rows, feed_id, url) ==
    {it \in rows : it.feed_id = feed_id /\ it.url = url}

\* An upsert that replaces the conflicting row by a new one (a new id).
UpsertItemRowFreshId(rows, feed_id, entry, now, newId) ==
    [id |-> newId, feed_id |-> feed_id, title |-> entry.title,
     summary |-> entry.summary, url |-> entry.link,
     published_at |-> entry.published, category |-> NULL, fetched_at |-> now]

\* rss_ingest.py:193  INSERT INTO items ... ON CONFLICT (feed_id, url) DO UPDATE
UpsertItemRow(rows, feed_id, entry, now, newId) ==
    LET hit == ConflictRows(rows, feed_id, entry.link) IN
    IF hit = {}
    THEN [id |-> newId, feed_id |-> feed_id, title |-> entry.title,
          summary |-> entry.summary, url |-> entry.link,
          published_at |-> entry.published, category |-> NULL,
          fetched_at |-> now]
    ELSE LET old == CHOOSE it \in hit : TRUE IN
         [old EXCEPT !.title = Coalesce(entry.title, old.title),
                     !.summary = Coalesce(entry.summary, old.summary),
                     !.published_at = Coalesce(entry.published, old.published_at),
                     !.fetched_at = now]

\* rss_ingest.py:186  if not title or not link: continue
ValidEntry(entry) == entry.title # "" /\ entry.link # ""

\* No truncation.
TruncateNone(entries, max_items) == entries

\* rss_ingest.py:179  entries[:max_items]
Truncate(entries, max_items) == SubSeq(entries, 1, Min(Len(entries), max_items))

\* rss_ingest.py:220  fetched_at > now_utc - timedelta(minutes=1)
CountsAsInsert(fetched_at, now_utc) == fetched_at > now_utc - 1

\* A run-level hard-failure status.
FinalStatusFailed(feeds_failed) == IF feeds_failed = 0 THEN "success" ELSE "failed"

\* rss_ingest.py:697
FinalStatus(feeds_failed) == IF feeds_failed = 0 THEN "success" ELSE "partial"

ErrorRow(id, run_id, feed_id, error_type, error_message, http_status, now) ==
    [id |-> id, run_id |-> run_id, feed_id |-> feed_id, error_type |-> error_type,
     error_message |-> error_message, http_status |-> http_status,
     created_at |-> now]

\* What a session sees: committed rows overlaid by its own pending writes.
VisibleItems(r) ==
    {it \in items : ConflictRows(proc[r].tx.items, it.feed_id, it.url) = {}}
        \cup proc[r].tx.items
VisibleFeed(r, f) ==
    IF proc[r].tx.feeds[f] # NoRow THEN proc[r].tx.feeds[f] ELSE feeds[f]

(* --------------------------- PREPARE ----------------------------------- *)
\* rss_ingest.py:480-494  load_feeds_config, enabled_feeds, total_feeds
Invoke(r, config) ==
    /\ proc[r].pc \in {"idle", "done", "raised"}
    /\ proc' = [proc EXCEPT ![r] =
          [IdleProc EXCEPT !.pc = "removal", !.config = config,
                           !.enabled_feeds = EnabledFeeds(config),
                           !.total_feeds = Len(EnabledFeeds(config)),
                           !.startItems = items,
                           !.startFeeds = feeds,
                           !.last200 = proc[r].last200,
                           !.prev = [config |-> proc[r].config,
                                     fetch_results |-> proc[r].fetch_results]]]
    /\ started' = started + 1
    /\ UNCHANGED <<store, rateLimitsTable, clock, ids, ticks, http, call, pool, gemini, limiter>>

\* A removal that keeps only the enabled feeds of the configuration.
StaleFeedsNotEnabled(tbl, config) ==
    {f \in FeedIds : tbl[f] # NoRow /\ f \notin ConfigFeedIds(EnabledFeeds(config))}

\* rss_ingest.py:498-500  existing feeds whose id is not in config_feed_ids
StaleFeeds(tbl, config) ==
    {f \in FeedIds : tbl[f] # NoRow /\ f \notin ConfigFeedIds(config)}

\* rss_ingest.py:496-503  feeds no longer in config, with ON DELETE CASCADE
RemoveStaleFeeds(r) ==
    /\ proc[r].pc = "removal"
    /\ LET gone == StaleFeeds(feeds, proc[r].config) IN
       /\ gone \cap LockedFeeds(r) = {}
       /\ items' = {it \in items : it.feed_id \notin gone}
       /\ feeds' = [f \in FeedIds |-> IF f \in gone THEN NoRow ELSE feeds[f]]
       /\ errors' = {e \in errors : e.feed_id \notin gone}
       /\ proc' = [proc EXCEPT
             ![r].pc = "runrow",
             ![r].last200 = [f \in FeedIds |-> IF f \in gone THEN NoValidators ELSE @[f]]]
    /\ UNCHANGED <<runs, rateLimitsTable, clock, ids, started, ticks, http, call, pool, gemini, limiter>>

\* rss_ingest.py:505-514  INSERT INTO runs ... 'running'
InsertRun(r) ==
    /\ proc[r].pc = "runrow"
    /\ runs' = runs \cup
          {[id |-> ids.run, started_at |-> clock, finished_at |-> NoTime,
            status |-> "running", total_feeds |-> proc[r].total_feeds,
            feeds_succeeded |-> 0, feeds_failed |-> 0, items_inserted |-> 0]}
    /\ ids' = [ids EXCEPT !.run = @ + 1]
    /\ proc' = [proc EXCEPT ![r].pc = "prepare", ![r].run_id = ids.run]
    /\ UNCHANGED <<feeds, items, errors, rateLimitsTable, clock, started, ticks, http, call, pool, gemini, limiter>>

RECURSIVE UpsertAll(_, _)
UpsertAll(tbl, fds) ==
    IF fds = <<>> THEN tbl ELSE UpsertAll(upsert_feed(tbl, Head(fds)), Tail(fds))

\* A PREPARE whose session is neither committed nor closed: its upserts
\* stay pending while the feeds are fetched.
PrepareLeftOpen(r) ==
    /\ proc[r].pc = "prepare"
    /\ \A k \in DOMAIN proc[r].enabled_feeds : WellFormed(proc[r].enabled_feeds[k])
    /\ ConfigFeedIds(proc[r].enabled_feeds) \cap LockedFeeds(r) = {}
    /\ proc' = [proc EXCEPT
          ![r].pc = "fetch",
          ![r].session = "prepare",
          ![r].tx.feeds =
              [f \in FeedIds |->
                  IF f \in ConfigFeedIds(proc[r].enabled_feeds)
                  THEN UpsertAll(feeds, proc[r].enabled_feeds)[f] ELSE NoRow],
          ![r].feed_metadata =
              [f \in FeedIds |->
                  IF f \in ConfigFeedIds(proc[r].enabled_feeds)
                  THEN get_feed_metadata(UpsertAll(feeds, proc[r].enabled_feeds), f)
                  ELSE NoRow]]
    /\ UNCHANGED <<store, rateLimitsTable, clock, ids, started, ticks, http, call, pool, gemini, limiter>>

\* rss_ingest.py:518-524  upsert_feed and get_feed_metadata per enabled feed
Prepare(r) ==
    /\ proc[r].pc = "prepare"
    /\ \A k \in DOMAIN proc[r].enabled_feeds : WellFormed(proc[r].enabled_feeds[k])
    /\ ConfigFeedIds(proc[r].enabled_feeds) \cap LockedFeeds(r) = {}
    /\ feeds' = UpsertAll(feeds, proc[r].enabled_feeds)
    /\ proc' = [proc EXCEPT
          ![r].pc = "fetch",
          ![r].feed_metadata =
              [f \in FeedIds |->
                  IF f \in ConfigFeedIds(proc[r].enabled_feeds)
                  THEN get_feed_metadata(feeds', f) ELSE NoRow]]
    /\ UNCHANGED <<items, runs, errors, rateLimitsTable, clock, ids, started, ticks, http, call, pool, gemini, limiter>>

(* ---------------------------- FETCH ------------------------------------ *)
\* Conditional headers with If-None-Match only.
RequestHeadersEtagOnly(etag, last_modified) ==
    [If_None_Match |-> IF etag \notin {NULL, ""} THEN etag ELSE NULL,
     If_Modified_Since |-> NULL]

\* rss_ingest.py:247-251  the conditional headers of fetch_rss_feed, NULL
\* for a header that is not sent
RequestHeaders(etag, last_modified) ==
    [If_None_Match |-> IF etag \notin {NULL, ""} THEN etag ELSE NULL,
     If_Modified_Since |-> IF last_modified \notin {NULL, ""} THEN last_modified ELSE NULL]

\* rss_ingest.py:359-381, 545-547  one task per enabled feed, any completion order
FetchDone(r, f, outcome) ==
    /\ proc[r].pc = "fetch"
    /\ f \in ConfigFeedIds(proc[r].enabled_feeds)
    /\ proc[r].fetch_results[f] = NoResult
    /\ proc' = [proc EXCEPT
          ![r].fetch_results[f] = outcome,
          ![r].request_headers[f] =
              RequestHeaders(proc[r].feed_metadata[f].etag,
                             proc[r].feed_metadata[f].last_modified),
          ![r].completed = Append(@, f)]
    /\ UNCHANGED <<store, rateLimitsTable, clock, ids, started, ticks, http, call, pool, gemini, limiter>>

\* rss_ingest.py:532-557  the executor is left when every task has completed
BeginPersist(r) ==
    /\ proc[r].pc = "fetch"
    /\ \A f \in ConfigFeedIds(proc[r].enabled_feeds) :
          proc[r].fetch_results[f] # NoResult
    /\ proc' = [proc EXCEPT ![r].pc = "persist", ![r].session = "persist",
                            ![r].i = 1, ![r].j = 1]
    /\ UNCHANGED <<store, rateLimitsTable, clock, ids, started, ticks, http, call, pool, gemini, limiter>>


(* --------------------------- PERSIST ----------------------------------- *)
\* rss_ingest.py:558  for feed_data in enabled_feeds (registry order)
InPersist(r) == proc[r].pc = "persist" /\ proc[r].i <= Len(proc[r].enabled_feeds)
\* A loop over the feeds in the order their fetches completed.
CurFeedAsCompleted(r) == proc[r].completed[proc[r].i]

\* rss_ingest.py:558-559  feed_id of the i-th element of enabled_feeds
CurFeed(r) == proc[r].enabled_feeds[proc[r].i].id
CurResult(r) == proc[r].fetch_results[CurFeed(r)]
CurEntries(r) == Truncate(CurResult(r).entries, MaxItems)
FeedRowFree(r, f) == \A q \in OtherProcs(r) : proc[q].tx.feeds[f] = NoRow

\* A failed fetch that ends the loop over the feeds.
PersistFetchErrorBreak(r) ==
    /\ InPersist(r)
    /\ CurResult(r).kind = "error"
    /\ proc' = [proc EXCEPT
          ![r].feeds_failed = @ + 1,
          ![r].tx.errors = @ \cup
              {ErrorRow(ids.error, proc[r].run_id, CurFeed(r), "http_error",
                        CurResult(r).error, NoStatus, clock)},
          ![r].i = Len(proc[r].enabled_feeds) + 1]
    /\ ids' = [ids EXCEPT !.error = @ + 1]
    /\ UNCHANGED <<store, rateLimitsTable, clock, started, ticks, http, call, pool, gemini, limiter>>

\* A failed fetch that is counted and not recorded.
PersistFetchErrorUnrecorded(r) ==
    /\ InPersist(r)
    /\ CurResult(r).kind = "error"
    /\ proc' = [proc EXCEPT ![r].feeds_failed = @ + 1, ![r].i = @ + 1]
    /\ UNCHANGED <<store, rateLimitsTable, clock, ids, started, ticks, http, call, pool, gemini, limiter>>

\* rss_ingest.py:574-595  fetch failed
PersistFetchError(r) ==
    /\ InPersist(r)
    /\ CurResult(r).kind = "error"
    /\ proc' = [proc EXCEPT
          ![r].feeds_failed = @ + 1,
          ![r].log = Append(@, <<CurFeed(r), "feed_run_errors">>),
          ![r].tx.errors = @ \cup
              {ErrorRow(ids.error, proc[r].run_id, CurFeed(r), "http_error",
                        CurResult(r).error, NoStatus, clock)},
          ![r].i = @ + 1]
    /\ ids' = [ids EXCEPT !.error = @ + 1]
    /\ UNCHANGED <<store, rateLimitsTable, clock, started, ticks, http, call, pool, gemini, limiter>>

\* A 304 branch that stores the validators of the 304 response itself.
Persist304FromResponse(r) ==
    /\ InPersist(r)
    /\ CurResult(r).kind = "response"
    /\ CurResult(r).status_code = 304
    /\ FeedRowFree(r, CurFeed(r))
    /\ proc' = [proc EXCEPT
          ![r].feeds_succeeded = @ + 1,
          ![r].tx.feeds[CurFeed(r)] =
              update_feed_metadata(VisibleFeed(r, CurFeed(r)),
                                   CurResult(r).etag, CurResult(r).last_modified,
                                   clock),
          ![r].i = @ + 1]
    /\ UNCHANGED <<store, rateLimitsTable, clock, ids, started, ticks, http, call, pool, gemini, limiter>>

\* rss_ingest.py:596-604  304 Not Modified
Persist304(r) ==
    /\ InPersist(r)
    /\ CurResult(r).kind = "response"
    /\ CurResult(r).status_code = 304
    /\ FeedRowFree(r, CurFeed(r))
    /\ proc' = [proc EXCEPT
          ![r].feeds_succeeded = @ + 1,
          ![r].log = Append(@, <<CurFeed(r), "feeds">>),
          ![r].tx.feeds[CurFeed(r)] =
              update_feed_metadata(VisibleFeed(r, CurFeed(r)),
                                   proc[r].feed_metadata[CurFeed(r)].etag,
                                   proc[r].feed_metadata[CurFeed(r)].last_modified,
                                   clock),
          ![r].i = @ + 1]
    /\ UNCHANGED <<store, rateLimitsTable, clock, ids, started, ticks, http, call, pool, gemini, limiter>>

Is200(res) == res.kind = "response" /\ res.status_code = 200

\* A parse error that ends the loop over the feeds.
PersistParseErrorBreak(r) ==
    /\ InPersist(r)
    /\ Is200(CurResult(r))
    /\ CurResult(r).bozo
    /\ proc' = [proc EXCEPT
          ![r].feeds_failed = @ + 1,
          ![r].tx.errors = @ \cup
              {ErrorRow(ids.error, proc[r].run_id, CurFeed(r), "parse_error",
                        "RSS parse error", 200, clock)},
          ![r].i = Len(proc[r].enabled_feeds) + 1]
    /\ ids' = [ids EXCEPT !.error = @ + 1]
    /\ UNCHANGED <<store, rateLimitsTable, clock, started, ticks, http, call, pool, gemini, limiter>>

\* rss_ingest.py:612-613, 638-662  feed.bozo and feed.bozo_exception
PersistParseError(r) ==
    /\ InPersist(r)
    /\ Is200(CurResult(r))
    /\ CurResult(r).bozo
    /\ proc' = [proc EXCEPT
          ![r].feeds_failed = @ + 1,
          ![r].log = Append(@, <<CurFeed(r), "feed_run_errors">>),
          ![r].tx.errors = @ \cup
              {ErrorRow(ids.error, proc[r].run_id, CurFeed(r), "parse_error",
                        "RSS parse error", 200, clock)},
          ![r].i = @ + 1]
    /\ ids' = [ids EXCEPT !.error = @ + 1]
    /\ UNCHANGED <<store, rateLimitsTable, clock, started, ticks, http, call, pool, gemini, limiter>>

\* rss_ingest.py:179-229  one iteration of the loop of insert_items
PersistItem(r) ==
    /\ InPersist(r)
    /\ Is200(CurResult(r))
    /\ ~CurResult(r).bozo
    /\ proc[r].j <= Len(CurEntries(r))
    /\ LET entry == CurEntries(r)[proc[r].j]
           row == UpsertItemRow(VisibleItems(r), CurFeed(r), entry, clock, ids.item)
       IN
       \/ /\ ~ValidEntry(entry)
          /\ proc' = [proc EXCEPT ![r].j = @ + 1]
          /\ UNCHANGED ids
       \/ /\ ValidEntry(entry)
          /\ <<CurFeed(r), entry.link>> \notin LockedItemKeys(r)
          /\ proc' = [proc EXCEPT
                ![r].tx.items =
                    (@ \ ConflictRows(@, CurFeed(r), entry.link)) \cup {row},
                ![r].inserted =
                    IF CountsAsInsert(row.fetched_at, clock) THEN @ + 1 ELSE @,
                ![r].writes = Append(@, <<CurFeed(r), entry>>),
                ![r].log = Append(@, <<CurFeed(r), "items">>),
                ![r].j = @ + 1]
          /\ ids' = [ids EXCEPT !.item = IF row.id = @ THEN @ + 1 ELSE @]
    /\ UNCHANGED <<store, rateLimitsTable, clock, started, ticks, http, call, pool, gemini, limiter>>

\* rss_ingest.py:615-636  insert_items returned: counts, update_feed_metadata
PersistFeedDone(r) ==
    /\ InPersist(r)
    /\ Is200(CurResult(r))
    /\ ~CurResult(r).bozo
    /\ proc[r].j > Len(CurEntries(r))
    /\ FeedRowFree(r, CurFeed(r))
    /\ proc' = [proc EXCEPT
          ![r].items_inserted = @ + proc[r].inserted,
          ![r].feeds_succeeded = @ + 1,
          ![r].log = Append(@, <<CurFeed(r), "feeds">>),
          ![r].tx.feeds[CurFeed(r)] =
              update_feed_metadata(VisibleFeed(r, CurFeed(r)),
                                   CurResult(r).etag, CurResult(r).last_modified,
                                   clock),
          ![r].inserted = 0,
          ![r].j = 1,
          ![r].i = @ + 1]
    /\ UNCHANGED <<store, rateLimitsTable, clock, ids, started, ticks, http, call, pool, gemini, limiter>>

\* An unexpected status recorded without its status code.
PersistOtherStatusNoCode(r) ==
    /\ InPersist(r)
    /\ CurResult(r).kind = "response"
    /\ CurResult(r).status_code \notin {200, 304}
    /\ proc' = [proc EXCEPT
          ![r].feeds_failed = @ + 1,
          ![r].tx.errors = @ \cup
              {ErrorRow(ids.error, proc[r].run_id, CurFeed(r), "http_error",
                        "HTTP status", NoStatus, clock)},
          ![r].i = @ + 1]
    /\ ids' = [ids EXCEPT !.error = @ + 1]
    /\ UNCHANGED <<store, rateLimitsTable, clock, started, ticks, http, call, pool, gemini, limiter>>

\* rss_ingest.py:663-686  unexpected HTTP status
PersistOtherStatus(r) ==
    /\ InPersist(r)
    /\ CurResult(r).kind = "response"
    /\ CurResult(r).status_code \notin {200, 304}
    /\ proc' = [proc EXCEPT
          ![r].feeds_failed = @ + 1,
          ![r].log = Append(@, <<CurFeed(r), "feed_run_errors">>),
          ![r].tx.errors = @ \cup
              {ErrorRow(ids.error, proc[r].run_id, CurFeed(r), "http_error",
                        "HTTP status", CurResult(r).status_code, clock)},
          ![r].i = @ + 1]
    /\ ids' = [ids EXCEPT !.error = @ + 1]
    /\ UNCHANGED <<store, rateLimitsTable, clock, started, ticks, http, call, pool, gemini, limiter>>

\* rss_ingest.py:688  db.commit()
PersistCommit(r) ==
    /\ proc[r].pc = "persist"
    /\ proc[r].i > Len(proc[r].enabled_feeds)
    /\ items' = {it \in items : ConflictRows(proc[r].tx.items, it.feed_id, it.url) = {}}
                    \cup proc[r].tx.items
    /\ feeds' = [f \in FeedIds |->
                    IF proc[r].tx.feeds[f] # NoRow THEN proc[r].tx.feeds[f]
                    ELSE feeds[f]]
    /\ errors' = errors \cup proc[r].tx.errors
    /\ proc' = [proc EXCEPT
          ![r].pc = "finalize", ![r].tx = NoTx, ![r].session = "none",
          ![r].completed = <<>>, ![r].log = <<>>,
          ![r].last200 =
              [f \in FeedIds |->
                  IF /\ f \in ConfigFeedIds(proc[r].enabled_feeds)
                     /\ Is200(proc[r].fetch_results[f])
                     /\ ~proc[r].fetch_results[f].bozo
                  THEN [etag |-> proc[r].fetch_results[f].etag,
                        last_modified |-> proc[r].fetch_results[f].last_modified]
                  ELSE @[f]]]
    /\ UNCHANGED <<runs, rateLimitsTable, clock, ids, started, ticks, http, call, pool, gemini, limiter>>

(* --------------------------- FINALIZE ---------------------------------- *)
\* A run that goes from PERSIST to the sweep without its bookkeeping update.
FinalizeSkipped(r) ==
    /\ proc[r].pc = "finalize"
    /\ proc' = [proc EXCEPT ![r].pc = "cleanup",
                            ![r].status = FinalStatus(proc[r].feeds_failed)]
    /\ UNCHANGED <<store, rateLimitsTable, clock, ids, started, ticks, http, call, pool, gemini, limiter>>

\* rss_ingest.py:696-718  UPDATE runs SET finished_at, status, counts
Finalize(r) ==
    /\ proc[r].pc = "finalize"
    /\ runs' = {IF run.id = proc[r].run_id
                THEN [run EXCEPT !.finished_at = clock,
                                 !.status = FinalStatus(proc[r].feeds_failed),
                                 !.feeds_succeeded = proc[r].feeds_succeeded,
                                 !.feeds_failed = proc[r].feeds_failed,
                                 !.items_inserted = proc[r].items_inserted]
                ELSE run : run \in runs}
    /\ proc' = [proc EXCEPT ![r].pc = "cleanup",
                            ![r].status = FinalStatus(proc[r].feeds_failed)]
    /\ UNCHANGED <<feeds, items, errors, rateLimitsTable, clock, ids, started, ticks, http, call, pool, gemini, limiter>>

(* --------------------------- CLEANUP ----------------------------------- *)
\* rss_ingest.py:301-331  the rows the three DELETE statements match
ExpiredItems(now) == {it \in items : it.fetched_at < now - Days(ITEMS_RETENTION_DAYS)}
ExpiredErrors(now) == {e \in errors : e.created_at < now - Days(ERRORS_RETENTION_DAYS)}
ExpiredRuns(now) == {run \in runs : run.started_at < now - Days(RUNS_RETENTION_DAYS)}

\* rss_ingest.py:299-346  one transaction; a failed statement (rate_limits
\* missing) aborts it, the exception is swallowed, and the commit at the end
\* of the with-block rolls everything back.
CleanupCommits == rateLimitsTable

\* rss_ingest.py:733-742
Summary(r, items_deleted) ==
    [run_id |-> proc[r].run_id, status |-> proc[r].status,
     items_inserted |-> proc[r].items_inserted, items_deleted |-> items_deleted,
     feeds_failed |-> proc[r].feeds_failed,
     feeds_succeeded |-> proc[r].feeds_succeeded,
     total_feeds |-> proc[r].total_feeds]

\* A sweep over tables without ON DELETE CASCADE: the rows that refer to a
\* deleted Run stay.
CleanupNoCascade(r) ==
    /\ proc[r].pc = "cleanup"
    /\ IF CleanupCommits
       THEN /\ items' = items \ ExpiredItems(clock)
            /\ runs' = runs \ ExpiredRuns(clock)
            /\ errors' = errors \ ExpiredErrors(clock)
       ELSE UNCHANGED <<items, runs, errors>>
    /\ proc' = [proc EXCEPT
          ![r].pc = "done",
          ![r].summary = Summary(r, Cardinality(ExpiredItems(clock)))]
    /\ UNCHANGED <<feeds, rateLimitsTable, clock, ids, started, ticks, http, call, pool, gemini, limiter>>

\* rss_ingest.py:286-356, 720-742  cleanup_old_data, then return the summary
Cleanup(r) ==
    /\ proc[r].pc = "cleanup"
    /\ \A it \in ExpiredItems(clock) : <<it.feed_id, it.url>> \notin LockedItemKeys(r)
    /\ IF CleanupCommits
       THEN /\ items' = items \ ExpiredItems(clock)
            /\ runs' = runs \ ExpiredRuns(clock)
            /\ errors' = {e \in errors \ ExpiredErrors(clock) :
                            \A run \in ExpiredRuns(clock) : e.run_id # run.id}
       ELSE UNCHANGED <<items, runs, errors>>
    /\ proc' = [proc EXCEPT
          ![r].pc = "done",
          ![r].summary = Summary(r, Cardinality(ExpiredItems(clock)))]
    /\ UNCHANGED <<feeds, rateLimitsTable, clock, ids, started, ticks, http, call, pool, gemini, limiter>>

(* ------------------------- environment --------------------------------- *)
TickSteps == {Days(ITEMS_RETENTION_DAYS) + 1, Days(RUNS_RETENTION_DAYS) + 1}

\* Time passes between invocations of the scheduler.  Every timestamp is
\* relative to the clock, so time passing over an untouched store is skipped.
Tick(d) ==
    /\ ticks < MaxTicks
    /\ started > 0
    /\ \A r \in Procs : proc[r].pc \in {"idle", "done", "raised"}
    /\ clock' = clock + d
    /\ ticks' = ticks + 1
    /\ UNCHANGED <<store, rateLimitsTable, ids, proc, started, http, call, pool, gemini, limiter>>

\* rss_ingest.py:529-547  the fetches take time: the rows PERSIST writes
\* are younger than the Run row of the invocation.
Elapse(r) ==
    /\ proc[r].pc = "fetch"
    /\ \A run \in runs : run.id = proc[r].run_id => run.started_at = clock
    /\ clock' = clock + 1
    /\ UNCHANGED <<store, rateLimitsTable, ids, proc, started, ticks, http, call, pool, gemini, limiter>>

\* The statement session r would execute next waits for a row that the open
\* PERSIST transaction of session q has written.
WaitsFor(r, q) ==
    /\ InPersist(r)
    /\ CurResult(r).kind = "response"
    /\ \/ /\ CurResult(r).status_code = 304
          /\ proc[q].tx.feeds[CurFeed(r)] # NoRow
       \/ /\ Is200(CurResult(r)) /\ ~CurResult(r).bozo
          /\ IF proc[r].j <= Len(CurEntries(r))
             THEN /\ ValidEntry(CurEntries(r)[proc[r].j])
                  /\ ConflictRows(proc[q].tx.items, CurFeed(r),
                                  CurEntries(r)[proc[r].j].link) # {}
             ELSE proc[q].tx.feeds[CurFeed(r)] # NoRow

\* rss_ingest.py:226-229, 635-662  the database ends a lock cycle by failing
\* the waiting statement of one session.  insert_items swallows that error,
\* every later statement of the aborted transaction fails as well, and the
\* INSERT INTO feed_run_errors of the except branch raises out of the run.
DeadlockAbort(r) ==
    /\ \E q \in OtherProcs(r) : WaitsFor(r, q) /\ WaitsFor(q, r)
    /\ proc' = [proc EXCEPT
          ![r].pc = "raised",
          ![r].items_inserted = @ + proc[r].inserted,
          ![r].feeds_succeeded = @ + 1,
          ![r].feeds_failed = @ + 1,
          ![r].tx = NoTx, ![r].session = "none"]
    /\ UNCHANGED <<store, rateLimitsTable, clock, ids, started, ticks, http, call, pool, gemini, limiter>>

(* ----------------------------- faults ---------------------------------- *)
\* rss_ingest.py:88-93, 483  open() or json.load() raises: the invocation
\* ends at its first statement.
InvokeLoadFails(r, why) ==
    /\ proc[r].pc \in {"idle", "done", "raised"}
    /\ proc' = [proc EXCEPT ![r] =
          [IdleProc EXCEPT !.pc = "raised", !.fault = why,
                           !.startItems = items, !.startFeeds = feeds,
                           !.last200 = proc[r].last200,
                           !.prev = [config |-> proc[r].config,
                                     fetch_results |-> proc[r].fetch_results]]]
    /\ started' = started + 1
    /\ UNCHANGED <<store, rateLimitsTable, clock, ids, ticks, http, call, pool, gemini, limiter>>

\* rss_ingest.py:520-524, 126-128  upsert_feed raises KeyError for a feed
\* entry without "name" or "url"; the PREPARE session is rolled back.
PrepareFails(r) ==
    /\ proc[r].pc = "prepare"
    /\ \E k \in DOMAIN proc[r].enabled_feeds : ~WellFormed(proc[r].enabled_feeds[k])
    /\ proc' = [proc EXCEPT ![r].pc = "raised", ![r].fault = "config_entry"]
    /\ UNCHANGED <<store, rateLimitsTable, clock, ids, started, ticks, http, call, pool, gemini, limiter>>

\* rss_ingest.py:193-229, 635-662  the database rejects an item upsert.
\* insert_items swallows the error, the transaction stays aborted, so
\* update_feed_metadata raises, the except branch counts the feed as failed
\* and its INSERT INTO feed_run_errors raises out of the run.
ItemWriteFails(r) ==
    /\ InPersist(r)
    /\ Is200(CurResult(r))
    /\ ~CurResult(r).bozo
    /\ proc[r].j <= Len(CurEntries(r))
    /\ ValidEntry(CurEntries(r)[proc[r].j])
    /\ proc' = [proc EXCEPT
          ![r].pc = "raised",
          ![r].fault = "item_write",
          ![r].skipped = Append(@, <<CurFeed(r), CurEntries(r)[proc[r].j]>>),
          ![r].items_inserted = @ + proc[r].inserted,
          ![r].feeds_succeeded = @ + 1,
          ![r].feeds_failed = @ + 1,
          ![r].tx = NoTx, ![r].session = "none"]
    /\ UNCHANGED <<store, rateLimitsTable, clock, ids, started, ticks, http, call, pool, gemini, limiter>>

\* rss_ingest.py:189-229  the upsert of a candidate raises before the
\* statement reaches the server (a value the driver cannot send, such as a
\* title with a NUL byte): insert_items logs it and goes on, and the
\* transaction is as it was.
ItemWriteRejected(r) ==
    /\ InPersist(r)
    /\ Is200(CurResult(r))
    /\ ~CurResult(r).bozo
    /\ proc[r].j <= Len(CurEntries(r))
    /\ ValidEntry(CurEntries(r)[proc[r].j])
    /\ proc' = [proc EXCEPT
          ![r].skipped = Append(@, <<CurFeed(r), CurEntries(r)[proc[r].j]>>),
          ![r].j = @ + 1]
    /\ UNCHANGED <<store, rateLimitsTable, clock, ids, started, ticks, http, call, pool, gemini, limiter>>

\* A session that sends each statement in a transaction of its own: when
\* update_feed_metadata is rejected, the item upserts before it stay.
FeedWriteFailsAutocommit(r) ==
    /\ InPersist(r)
    /\ Is200(CurResult(r))
    /\ ~CurResult(r).bozo
    /\ proc[r].j > Len(CurEntries(r))
    /\ items' = VisibleItems(r)
    /\ proc' = [proc EXCEPT
          ![r].pc = "raised",
          ![r].fault = "feed_write",
          ![r].items_inserted = @ + proc[r].inserted,
          ![r].feeds_succeeded = @ + 1,
          ![r].feeds_failed = @ + 1,
          ![r].tx = NoTx, ![r].session = "none"]
    /\ UNCHANGED <<feeds, runs, errors, rateLimitsTable, clock, ids, started, ticks, http, call, pool, gemini, limiter>>

\* rss_ingest.py:599, 635-662  the database rejects update_feed_metadata:
\* in the 304 branch the error leaves the run at once, in the 200 branch
\* it is caught and the INSERT INTO feed_run_errors of the except branch
\* fails in the aborted transaction.
FeedWriteFails(r) ==
    /\ InPersist(r)
    /\ CurResult(r).kind = "response"
    /\ \/ /\ CurResult(r).status_code = 304
          /\ proc' = [proc EXCEPT
                ![r].pc = "raised",
                ![r].fault = "feed_write",
                ![r].feeds_succeeded = @ + 1,
                ![r].tx = NoTx, ![r].session = "none"]
       \/ /\ Is200(CurResult(r))
          /\ ~CurResult(r).bozo
          /\ proc[r].j > Len(CurEntries(r))
          /\ proc' = [proc EXCEPT
                ![r].pc = "raised",
                ![r].fault = "feed_write",
                ![r].items_inserted = @ + proc[r].inserted,
                ![r].feeds_succeeded = @ + 1,
                ![r].feeds_failed = @ + 1,
                ![r].tx = NoTx, ![r].session = "none"]
    /\ UNCHANGED <<store, rateLimitsTable, clock, ids, started, ticks, http, call, pool, gemini, limiter>>

\* rss_ingest.py:615-662  update_feed_metadata raises before the statement
\* reaches the server (a value the driver cannot send, such as an ETag
\* header with a NUL byte): the items are upserted and the feed is counted
\* as succeeded already, the except branch counts it as failed and records
\* a parse_error, and the transaction is as it was.
FeedWriteRejected(r) ==
    /\ InPersist(r)
    /\ Is200(CurResult(r))
    /\ ~CurResult(r).bozo
    /\ proc[r].j > Len(CurEntries(r))
    /\ proc' = [proc EXCEPT
          ![r].fault = "feed_write_rejected",
          ![r].items_inserted = @ + proc[r].inserted,
          ![r].feeds_succeeded = @ + 1,
          ![r].feeds_failed = @ + 1,
          ![r].log = Append(@, <<CurFeed(r), "feed_run_errors">>),
          ![r].tx.errors = @ \cup
              {ErrorRow(ids.error, proc[r].run_id, CurFeed(r), "parse_error",
                        "DataError", 200, clock)},
          ![r].inserted = 0,
          ![r].j = 1,
          ![r].i = @ + 1]
    /\ ids' = [ids EXCEPT !.error = @ + 1]
    /\ UNCHANGED <<store, rateLimitsTable, clock, started, ticks, http, call, pool, gemini, limiter>>

\* A sweep whose error leaves run_rss_ingest.
CleanupRaisesUncaught(r) ==
    /\ proc[r].pc = "cleanup"
    /\ proc' = [proc EXCEPT ![r].pc = "raised", ![r].fault = "cleanup"]
    /\ UNCHANGED <<store, rateLimitsTable, clock, ids, started, ticks, http, call, pool, gemini, limiter>>

\* rss_ingest.py:720-742  cleanup_old_data raises (no connection, a failed
\* DELETE on items, feed_run_errors or runs): its transaction is rolled
\* back, the error is caught and items_deleted is 0.
CleanupRaises(r) ==
    /\ proc[r].pc = "cleanup"
    /\ proc' = [proc EXCEPT
          ![r].pc = "done",
          ![r].fault = "cleanup",
          ![r].summary = Summary(r, 0)]
    /\ UNCHANGED <<store, rateLimitsTable, clock, ids, started, ticks, http, call, pool, gemini, limiter>>

\* The steps in which a statement of the run fails.
FaultStep(r) ==
    \/ PrepareFails(r)
    \/ ItemWriteFails(r)
    \/ ItemWriteRejected(r)
    \/ FeedWriteFails(r)
    \/ CleanupRaises(r)

\* The steps in which a statement of PERSIST raises before it reaches the
\* server, so that the transaction goes on.
RejectStep(r) ==
    \/ ItemWriteRejected(r)
    \/ FeedWriteRejected(r)

\* The steps of a run whose feeds all answered 200 or 304.
Step(r) ==
    \/ RemoveStaleFeeds(r)
    \/ InsertRun(r)
    \/ Prepare(r)
    \/ BeginPersist(r)
    \/ Persist304(r)
    \/ PersistItem(r)
    \/ PersistFeedDone(r)
    \/ PersistCommit(r)
    \/ Finalize(r)
    \/ Cleanup(r)

\* The steps that record a failed feed.
FailStep(r) ==
    \/ PersistFetchError(r)
    \/ PersistParseError(r)
    \/ PersistOtherStatus(r)

(* -------------------------- fetch_rss_feed ----------------------------- *)
\* What one requests.get can end in: a response with a status code, a
\* timeout, or another connection-level exception.
HttpResponse(status) == [kind |-> "response", status_code |-> status]
Raised(type) == [kind |-> "exception", type |-> type]
StatusCodes == {200, 304, 403, 404, 429, 500, 502, 503, 504}
AttemptOutcomes ==
    {HttpResponse(c) : c \in StatusCodes} \cup {Raised("Timeout"), Raised("ConnectionError")}

\* Every error status is retried.
RetryableAnyError(status) == status >= 400

\* rss_ingest.py:260  response.status_code in (429, 500, 502, 503, 504)
Retryable(status) == status \in {429, 500, 502, 503, 504}

\* A backoff that starts at two seconds.
BackoffFromTwo(attempt) == 2 ^ (attempt + 1)

\* rss_ingest.py:262, 272  time.sleep(2 ** attempt)
Backoff(attempt) == 2 ^ attempt

\* The statements after the loop with the last response looked at first.
AfterLoopResponseFirst(last_exception, last_response) ==
    IF last_response # NoStatus THEN "HTTPError"
    ELSE IF last_exception # NULL THEN last_exception
    ELSE "RuntimeError"

\* rss_ingest.py:276-283  the statements after the loop
AfterLoop(last_exception, last_response) ==
    IF last_exception # NULL THEN last_exception
    ELSE IF last_response # NoStatus THEN "HTTPError"
    ELSE "RuntimeError"

\* rss_ingest.py:488  min(defaults.get("timeoutSeconds", FETCH_TIMEOUT),
\* FETCH_TIMEOUT)
Timeout(defaults) ==
    LET configured == IF "timeoutSeconds" \in DOMAIN defaults
                      THEN defaults.timeoutSeconds ELSE FETCH_TIMEOUT
    IN IF configured < FETCH_TIMEOUT THEN configured ELSE FETCH_TIMEOUT

\* "defaults" of the configuration: timeoutSeconds absent, below, at and
\* above FETCH_TIMEOUT.
Defaults ==
    {[maxItemsPerFeed |-> MaxItems]}
        \cup {[maxItemsPerFeed |-> MaxItems, timeoutSeconds |-> t] : t \in {1, 5, 30}}

\* The seconds requests.get(timeout = timeout) takes: the whole timeout when
\* it times out, at most the timeout when it ends otherwise.
AttemptSeconds(o, timeout) ==
    IF o.kind = "exception" /\ o.type = "Timeout" THEN {timeout} ELSE 0..timeout

\* rss_ingest.py:239-254  a call of fetch_rss_feed begins
BeginFetch ==
    /\ call.pc = "none"
    /\ \E defaults \in Defaults :
          call' = [NoCall EXCEPT !.pc = "loop", !.timeout = Timeout(defaults)]
    /\ UNCHANGED <<ingest, http, pool, gemini, limiter>>

\* rss_ingest.py:255-275  one iteration of the loop: requests.get ends in
\* outcome o
Attempt(o) ==
    /\ call.pc = "loop"
    /\ call.attempt < FETCH_RETRIES
    /\ LET more == call.attempt < FETCH_RETRIES - 1
           seen == [call EXCEPT !.trace = Append(@, o)]
           after ==
          IF o.kind = "response"
          THEN IF Retryable(o.status_code)
               THEN IF more
                    THEN [seen EXCEPT !.last_response = o.status_code,
                                      !.slept = Append(@, Backoff(call.attempt)),
                                      !.attempt = @ + 1]
                    ELSE [seen EXCEPT !.last_response = o.status_code,
                                      !.last_exception = "HTTPError",
                                      !.pc = "raised",
                                      !.result = Raised("HTTPError")]
               ELSE [seen EXCEPT !.last_response = o.status_code,
                                 !.pc = "returned",
                                 !.result = o]
          ELSE IF o.type = "Timeout"
               THEN [seen EXCEPT !.last_exception = "Timeout",
                                 !.slept = IF more THEN Append(@, Backoff(call.attempt))
                                           ELSE @,
                                 !.attempt = @ + 1]
               ELSE [seen EXCEPT !.last_exception = o.type,
                                 !.pc = "raised",
                                 !.result = o]
           wait == IF Len(after.slept) > Len(call.slept)
                   THEN after.slept[Len(after.slept)] ELSE 0
       IN
       \E seconds \in AttemptSeconds(o, call.timeout) :
           call' = [after EXCEPT !.elapsed = @ + seconds + wait]
    /\ UNCHANGED <<ingest, http, pool, gemini, limiter>>

\* rss_ingest.py:276-283  the loop has used all its attempts
LoopExit ==
    /\ call.pc = "loop"
    /\ call.attempt = FETCH_RETRIES
    /\ call' = [call EXCEPT
          !.pc = "raised",
          !.result = Raised(AfterLoop(call.last_exception, call.last_response))]
    /\ UNCHANGED <<ingest, http, pool, gemini, limiter>>

(* ------------------------- the feed registry --------------------------- *)
\* Entries of "feeds" for the feeds of the model: two names, on and off.
FeedEntries ==
    {FeedEntry(id, name, enabled) :
        id \in FeedIds, name \in {"n1", "n2"}, enabled \in BOOLEAN}
\* The ETag and Last-Modified headers a response may carry.
ETags == {NULL, "e1"}
LastModifieds == {NULL, "m1"}

\* rss_ingest.py:112-133, 521  upsert_feed is executed for an entry
RegisterFeed(fd) ==
    /\ feeds' = upsert_feed(feeds, fd)
    /\ UNCHANGED <<items, runs, errors, rateLimitsTable, clock, ids, proc,
                   started, ticks, http, call, pool, gemini, limiter>>

\* rss_ingest.py:136-152, 599, 635  update_feed_metadata is executed for a
\* feed that has its row
RecordFetch(f, etag, last_modified) ==
    /\ feeds[f] # NoRow
    /\ feeds' = [feeds EXCEPT ![f] = update_feed_metadata(@, etag, last_modified, clock)]
    /\ UNCHANGED <<items, runs, errors, rateLimitsTable, clock, ids, proc,
                   started, ticks, http, call, pool, gemini, limiter>>

(* ------------------------- the Gemini client --------------------------- *)
\* A handler that gives up the event loop after every statement.
AwaitsEverywhere(pc) == TRUE

\* main.py:678-828, services.py:27-44, 80-95  generate_image is a coroutine
\* without an await expression, and so are the functions it calls: the
\* event loop runs no other handler between two of its statements.
Awaits(pc) == FALSE

\* The positions at which a handler has ended.
HandlerEnded == {"returned", "raised", "missing_api_key"}

\* The event loop runs handler c next: no other handler holds it.
Scheduled(c) == gemini.running \in {0, c}

\* Handler c has reached position pc with its record changed to rec: it
\* keeps the event loop unless it has ended or awaits.
Reach(c, rec) ==
    [gemini EXCEPT
        !.callers[c] = rec,
        !.running = IF rec.pc \in HandlerEnded \/ Awaits(rec.pc) THEN 0 ELSE c]

\* main.py:28-60  the process starts with the environment it was given
Startup(api_key) ==
    /\ gemini.pc = "down"
    /\ gemini' = [gemini EXCEPT !.pc = "up", !.api_key = api_key]
    /\ UNCHANGED <<ingest, http, call, pool, limiter>>

\* main.py:677-678  a request to /api/generate-image is accepted
Arrive(c) ==
    /\ gemini.pc = "up"
    /\ gemini.callers[c].pc = "none"
    /\ gemini' = [gemini EXCEPT !.callers[c].pc = "ready"]
    /\ UNCHANGED <<ingest, http, call, pool, limiter>>

\* main.py:678-798, services.py:80-93  the event loop starts the handler,
\* which returns an error when GEMINI_API_KEY is not set and calls
\* _get_gemini_client otherwise
Resume(c) ==
    /\ Scheduled(c)
    /\ gemini.callers[c].pc = "ready"
    /\ LET rec == [gemini.callers[c] EXCEPT
                      !.pc = IF gemini.api_key THEN "enter" ELSE "missing_api_key"]
           waiting == {d \in Callers : gemini.callers[d].pc = "ready"}
       IN gemini' = [Reach(c, rec) EXCEPT
                        !.first_users =
                            IF gemini.api_key /\ gemini.client = NoClient /\ @ = {}
                            THEN waiting ELSE @]
    /\ UNCHANGED <<ingest, http, call, pool, limiter>>

\* services.py:35-37  if _client is not None: return _client
ReadClient(c) ==
    /\ Scheduled(c)
    /\ gemini.callers[c].pc = "enter"
    /\ gemini' =
          IF gemini.client # NoClient
          THEN Reach(c, [gemini.callers[c] EXCEPT !.pc = "returned", !.got = gemini.client])
          ELSE Reach(c, [gemini.callers[c] EXCEPT !.pc = "construct"])
    /\ UNCHANGED <<ingest, http, call, pool, limiter>>

\* services.py:39-43  the key is read and genai.Client(api_key=api_key) is
\* called
ConstructClient(c) ==
    /\ Scheduled(c)
    /\ gemini.callers[c].pc = "construct"
    /\ gemini' =
          IF ~gemini.api_key
          THEN Reach(c, [gemini.callers[c] EXCEPT !.pc = "raised"])
          ELSE [Reach(c, [gemini.callers[c] EXCEPT
                             !.pc = "assign", !.new = gemini.constructed + 1])
                  EXCEPT !.constructed = @ + 1]
    /\ UNCHANGED <<ingest, http, call, pool, limiter>>

\* services.py:43  _client = <the new object>
AssignClient(c) ==
    /\ Scheduled(c)
    /\ gemini.callers[c].pc = "assign"
    /\ gemini' = [Reach(c, [gemini.callers[c] EXCEPT !.pc = "return"])
                    EXCEPT !.client = gemini.callers[c].new]
    /\ UNCHANGED <<ingest, http, call, pool, limiter>>

\* services.py:44  return _client
ReturnClient(c) ==
    /\ Scheduled(c)
    /\ gemini.callers[c].pc = "return"
    /\ gemini' = Reach(c, [gemini.callers[c] EXCEPT !.pc = "returned", !.got = gemini.client])
    /\ UNCHANGED <<ingest, http, call, pool, limiter>>

(* ------------------------- the rate limit ------------------------------ *)
\* The requests an address sends at most.
RequestBudget(ip) == IF ip = "ip1" THEN MaxRequests ELSE MaxOtherRequests

RECURSIVE RowsBetween(_, _, _, _)
\* The rows of address ip with lo < requested_at <= hi.
RowsBetween(rows, ip, lo, hi) ==
    IF hi <= lo \/ hi < 0 THEN 0
    ELSE (IF hi \in Minutes THEN rows[<<ip, hi>>] ELSE 0)
            + RowsBetween(rows, ip, lo, hi - 1)

\* main.py:515-530  SELECT COUNT(*) FROM rate_limits WHERE ip_address = :ip
\* AND endpoint = :endpoint AND requested_at > now() - INTERVAL :window
CountInWindow(rows, ip, now) ==
    RowsBetween(rows, ip, now - RATE_LIMIT_WINDOW_MINUTES, now)

\* main.py:689-691  a request from address ip reaches instance p, whose
\* handler calls _check_rate_limit
CheckBegin(p, ip) ==
    /\ limiter.checks[p].pc = "none"
    /\ limiter.requests[ip] < RequestBudget(ip)
    /\ limiter' = [limiter EXCEPT
          !.requests[ip] = @ + 1,
          !.checks[p] = [NoCheck EXCEPT !.pc = "select", !.ip = ip]]
    /\ UNCHANGED <<ingest, http, call, pool, gemini>>

\* main.py:513-550, 567-576  the SELECT opens the transaction and counts
\* the rows in the window: at the limit the request is rejected; when the
\* statement raises (no table rate_limits) the request is allowed
CheckSelect(p) ==
    /\ limiter.checks[p].pc = "select"
    /\ LET c == limiter.checks[p]
           current_count == CountInWindow(limiter.rows, c.ip, limiter.now)
       IN
       limiter' = [limiter EXCEPT !.checks[p] =
          IF ~rateLimitsTable THEN [NoCheck EXCEPT !.pc = "allowed_unchecked"]
          ELSE IF current_count >= RATE_LIMIT_MAX_REQUESTS
               THEN [NoCheck EXCEPT !.pc = "rejected"]
               ELSE [c EXCEPT !.pc = "insert", !.tx_now = limiter.now]]
    /\ UNCHANGED <<ingest, http, call, pool, gemini>>

\* main.py:552-565  INSERT INTO rate_limits ... now(), commit: the request
\* is allowed
CheckInsert(p) ==
    /\ limiter.checks[p].pc = "insert"
    /\ LET c == limiter.checks[p] IN
       limiter' = [limiter EXCEPT
          !.rows[<<c.ip, c.tx_now>>] = @ + 1,
          !.checks[p] = [NoCheck EXCEPT !.pc = "allowed"]]
    /\ UNCHANGED <<ingest, http, call, pool, gemini>>

\* main.py:692-828  the handler answers and the instance is free again
CheckEnd(p) ==
    /\ limiter.checks[p].pc \in {"allowed", "allowed_unchecked", "rejected"}
    /\ limiter' = [limiter EXCEPT !.checks[p] = NoCheck]
    /\ UNCHANGED <<ingest, http, call, pool, gemini>>

\* The time that passes between requests: just less than the window, and
\* the window.
MinuteSteps == {RATE_LIMIT_WINDOW_MINUTES - 1, RATE_LIMIT_WINDOW_MINUTES}

\* Time passes.
Minute(d) ==
    /\ limiter.now + d <= MaxMinute
    /\ limiter' = [limiter EXCEPT !.now = @ + d]
    /\ UNCHANGED <<ingest, http, call, pool, gemini>>

(* ------------------------- the FETCH executor -------------------------- *)
\* rss_ingest.py:369-381  what fetch_feed_parallel returns for the result of
\* its call of fetch_rss_feed
fetch_feed_parallel(result) ==
    IF result.kind = "response" THEN [response |-> result, error |-> NULL]
    ELSE IF result.type = "Timeout"
         THEN [response |-> NoResponse, error |-> "Request timeout"]
         ELSE [response |-> NoResponse, error |-> result.type]

\* What a call of fetch_rss_feed ends in.
FetchEnds == {HttpResponse(200), Raised("Timeout")}

Running == {k \in PoolFeeds : pool.task[k] = "running"}

\* An executor that starts a thread for every task.
WorkerAvailableAlways(running) == TRUE

\* rss_ingest.py:532  ThreadPoolExecutor(max_workers=MAX_WORKERS): a queued
\* task starts when fewer than max_workers tasks are running
WorkerAvailable(running) == running < MAX_WORKERS

\* rss_ingest.py:532  the executor is created
EnterFetch ==
    /\ pool.pc = "none"
    /\ pool' = [pool EXCEPT !.pc = "submit"]
    /\ UNCHANGED <<ingest, http, call, gemini, limiter>>

\* rss_ingest.py:534-542  executor.submit for the next enabled feed; after
\* the last one the loop over as_completed begins
Submit ==
    /\ pool.pc = "submit"
    /\ pool.submitted < NumPoolFeeds
    /\ LET k == pool.submitted + 1 IN
       pool' = [pool EXCEPT
          !.submitted = k,
          !.dispatched[k] = @ + 1,
          !.task[k] = "queued",
          !.pc = IF k = NumPoolFeeds THEN "collect" ELSE "submit"]
    /\ UNCHANGED <<ingest, http, call, gemini, limiter>>

\* A worker thread takes the task at the head of the executor's queue.
StartTask(k) ==
    /\ pool.task[k] = "queued"
    /\ \A j \in PoolFeeds : j < k => pool.task[j] # "queued"
    /\ WorkerAvailable(Cardinality(Running))
    /\ pool' = [pool EXCEPT
          !.task[k] = "running",
          \* history: MAX_WORKERS tasks have been running at a time
          !.saturated = @ \/ Cardinality(Running) + 1 = MAX_WORKERS]
    /\ UNCHANGED <<ingest, http, call, gemini, limiter>>

\* rss_ingest.py:359-381  fetch_feed_parallel returns in its worker
FinishTask(k, result) ==
    /\ pool.task[k] = "running"
    /\ pool' = [pool EXCEPT !.task[k] = "finished",
                            !.returned[k] = fetch_feed_parallel(result)]
    /\ UNCHANGED <<ingest, http, call, gemini, limiter>>

\* rss_ingest.py:545-547  as_completed yields a finished future
Collect(k) ==
    /\ pool.pc = "collect"
    /\ pool.task[k] = "finished"
    /\ pool.fetch_results[k] = NoResult
    /\ pool' = [pool EXCEPT !.fetch_results[k] = pool.returned[k]]
    /\ UNCHANGED <<ingest, http, call, gemini, limiter>>

\* rss_ingest.py:545-549  as_completed is exhausted and the with-block of
\* the executor is left
LeaveFetch ==
    /\ pool.pc = "collect"
    /\ \A k \in PoolFeeds : pool.fetch_results[k] # NoResult
    /\ pool' = [pool EXCEPT !.pc = "ended"]
    /\ UNCHANGED <<ingest, http, call, gemini, limiter>>

(* --------------------------- request layer ----------------------------- *)
\* main.py:870, 891, 984, 1005  the routes that call run_rss_ingest
Routes ==
    {"POST /api/debug/ingest", "POST /api/debug/pull-feeds",
     "GET /api/cron/pull-feeds", "POST /api/cron/pull-feeds"}

Secrets == {"", "s1", "s2"}
AuthorizationHeaders ==
    {NoHeader} \cup {[scheme |-> "Bearer", credentials |-> t] : t \in Secrets}
        \cup {[scheme |-> "Basic", credentials |-> "s1"]}
CronSecretHeaders == {NULL} \cup Secrets
\* os.environ.get("CRON_SECRET"): unset, empty or set
Environments == {NULL, "", "s1"}

Requests ==
    [route : Routes, authorization : AuthorizationHeaders,
     x_cron_secret : CronSecretHeaders, CRON_SECRET : Environments,
     DEBUG_MODE : BOOLEAN]

\* main.py:915-944  the status of the HTTPException raised, NoStatus if none
_verify_cron_secret(authorization, x_cron_secret, cron_secret) ==
    IF cron_secret \in {NULL, ""} THEN 500
    ELSE LET provided_secret ==
                 IF authorization # NoHeader /\ authorization.scheme = "Bearer"
                 THEN authorization.credentials
                 ELSE IF x_cron_secret \notin {NULL, ""} THEN x_cron_secret
                 ELSE NULL
         IN IF provided_secret \in {NULL, ""} THEN 403
            ELSE IF provided_secret # cron_secret THEN 403
            ELSE NoStatus

\* A request arrives while no other is being served.
Receive(req) ==
    /\ http.route = "none" \/ http.response # NoStatus
    /\ proc[1].pc \in {"idle", "done", "raised"}
    /\ http' = [route |-> req.route, authorization |-> req.authorization,
                x_cron_secret |-> req.x_cron_secret,
                CRON_SECRET |-> req.CRON_SECRET, DEBUG_MODE |-> req.DEBUG_MODE,
                seq |-> started, response |-> NoStatus]
    /\ UNCHANGED <<ingest, call, pool, gemini, limiter>>

\* The handler of http.route has not yet run for the request.
Pending(route) ==
    http.route = route /\ http.response = NoStatus /\ started = http.seq

\* The handler answers with an HTTPException.
Reject(status) ==
    /\ http' = [http EXCEPT !.response = status]
    /\ UNCHANGED <<ingest, call, pool, gemini, limiter>>

\* main.py:870-888
debug_ingest(config) ==
    /\ Pending("POST /api/debug/ingest")
    /\ Invoke(1, config)

\* main.py:891-912
debug_pull_feeds(config) ==
    /\ Pending("POST /api/debug/pull-feeds")
    /\ IF ~http.DEBUG_MODE THEN Reject(404) ELSE Invoke(1, config)

\* main.py:947-981, called once the secret is verified
_run_cron_pull_feeds(config) == Invoke(1, config)

\* main.py:984-1002
cron_pull_feeds_get(config) ==
    /\ Pending("GET /api/cron/pull-feeds")
    /\ LET denied == _verify_cron_secret(http.authorization, http.x_cron_secret,
                                         http.CRON_SECRET)
       IN IF denied # NoStatus THEN Reject(denied) ELSE _run_cron_pull_feeds(config)

\* main.py:1005-1022
cron_pull_feeds_post(config) ==
    /\ Pending("POST /api/cron/pull-feeds")
    /\ LET denied == _verify_cron_secret(http.authorization, http.x_cron_secret,
                                         http.CRON_SECRET)
       IN IF denied # NoStatus THEN Reject(denied) ELSE _run_cron_pull_feeds(config)

\* main.py:881-888, 905-912, 958-981  the summary is returned, or the
\* exception of the run becomes a 500
Respond ==
    /\ http.route # "none" /\ http.response = NoStatus
    /\ started > http.seq
    /\ proc[1].pc \in {"done", "raised"}
    /\ http' = [http EXCEPT !.response = IF proc[1].pc = "done" THEN 200 ELSE 500]
    /\ UNCHANGED <<ingest, call, pool, gemini, limiter>>

\* Sequential invocations of run_rss_ingest by the scheduler.
Next ==
    \/ \E config \in Configs : started < MaxRuns /\ Invoke(1, config)
    \/ \E f \in FeedIds, outcome \in Outcomes : FetchDone(1, f, outcome)
    \/ Step(1)
    \/ FailStep(1)
    \/ \E d \in TickSteps : Tick(d)

Spec == Init /\ [][Next]_vars


\* Overlapping invocations (a retried scheduler call) on one configuration.
\* The second slot is used only while the first is busy.
NextConc ==
    \/ started < MaxConcRuns /\ Invoke(1, CfgAB)
    \/ started < MaxConcRuns /\ proc[1].pc \notin {"idle", "done", "raised"}
          /\ Invoke(2, CfgAB)
    \/ \E r \in Procs, f \in FeedIds, outcome \in ConcOutcomes :
          FetchDone(r, f, outcome)
    \/ \E r \in Procs : Step(r)
    \/ \E r \in Procs : DeadlockAbort(r)
    \/ \E d \in TickSteps : Tick(d)

SpecConc == Init /\ [][NextConc]_vars

\* Overlapping invocations on one feed whose row holds what earlier runs
\* stored.
NextStale ==
    \/ started = 0 /\ RegisterFeed(FeedConfig("a", TRUE))
    \/ \E etag \in ETags, last_modified \in LastModifieds :
          started = 0 /\ RecordFetch("a", etag, last_modified)
    \/ started < MaxConcRuns /\ Invoke(1, CfgA)
    \/ started < MaxConcRuns /\ proc[1].pc \notin {"idle", "done", "raised"}
          /\ Invoke(2, CfgA)
    \/ \E r \in Procs, outcome \in ConcOutcomes : FetchDone(r, "a", outcome)
    \/ \E r \in Procs : Step(r)

SpecStale == Init /\ [][NextStale]_vars

\* The outcomes of a fetch, one of each kind PERSIST tells apart.
SweepOutcomes ==
    {Response(200, FALSE, BodyFwd, "e1", "m1"), Malformed200, NotModified304,
     NotFound404, FetchError("Request timeout")}
\* The time between two invocations: at and just beyond a retention period.
SweepSteps ==
    {Days(ITEMS_RETENTION_DAYS) + 1, Days(RUNS_RETENTION_DAYS),
     Days(RUNS_RETENTION_DAYS) + 1}

\* Sequential invocations whose fetches take time, with feeds removed from
\* the configuration and retention periods passing between them.
NextSweep ==
    \/ \E config \in {CfgAB, CfgA} : started < MaxRuns /\ Invoke(1, config)
    \/ \E f \in FeedIds, outcome \in SweepOutcomes : FetchDone(1, f, outcome)
    \/ Elapse(1)
    \/ Step(1)
    \/ FailStep(1)
    \/ \E d \in SweepSteps : Tick(d)

SpecSweep == Init /\ [][NextSweep]_vars

\* Sequential invocations in which the configuration may be unusable and
\* statements of PERSIST and of the sweep may fail.
NextFault ==
    \/ \E config \in Configs \cup {CfgNoName} : started < MaxRuns /\ Invoke(1, config)
    \/ \E why \in LoadFaults : started < MaxRuns /\ InvokeLoadFails(1, why)
    \/ \E f \in FeedIds, outcome \in Outcomes : FetchDone(1, f, outcome)
    \/ Step(1)
    \/ FailStep(1)
    \/ FaultStep(1)
    \/ \E d \in TickSteps : Tick(d)

SpecFault == Init /\ [][NextFault]_vars

\* Sequential invocations in which the driver may reject the values of a
\* statement of PERSIST.
NextReject ==
    \/ \E config \in Configs : started < MaxRuns /\ Invoke(1, config)
    \/ \E f \in FeedIds, outcome \in Outcomes : FetchDone(1, f, outcome)
    \/ Step(1)
    \/ FailStep(1)
    \/ RejectStep(1)

SpecReject == Init /\ [][NextReject]_vars

\* One call of fetch_rss_feed against a server that may answer anything.
\* Every requests.get ends (it is given a timeout), so the loop goes on.
NextFetch ==
    \/ BeginFetch
    \/ \E o \in AttemptOutcomes : Attempt(o)
    \/ LoopExit

SpecFetch == Init /\ [][NextFetch]_vars /\ WF_vars(NextFetch)

\* One FETCH phase over more enabled feeds than the executor has workers.
\* Every fetch ends: its attempts are bounded and each has a timeout.
NextPool ==
    \/ EnterFetch
    \/ Submit
    \/ \E k \in PoolFeeds : StartTask(k)
    \/ \E k \in PoolFeeds, result \in FetchEnds : FinishTask(k, result)
    \/ \E k \in PoolFeeds : Collect(k)
    \/ LeaveFetch

SpecPool == Init /\ [][NextPool]_vars /\ WF_vars(NextPool)

\* The two statements that write the feeds table, in any order and with
\* any entry and any validators.
NextRegistry ==
    \/ \E fd \in FeedEntries : RegisterFeed(fd)
    \/ \E f \in FeedIds, etag \in ETags, last_modified \in LastModifieds :
          RecordFetch(f, etag, last_modified)

SpecRegistry == Init /\ [][NextRegistry]_vars

\* Requests to /api/generate-image of one process, accepted in any order
\* and at any time.
NextGemini ==
    \/ \E api_key \in BOOLEAN : Startup(api_key)
    \/ \E c \in Callers :
          \/ Arrive(c)
          \/ Resume(c)
          \/ ReadClient(c)
          \/ ConstructClient(c)
          \/ AssignClient(c)
          \/ ReturnClient(c)

SpecGemini == Init /\ [][NextGemini]_vars

\* Requests to /api/generate-image from two addresses, served by two
\* instances of the application on one database.
NextLimit ==
    \/ \E p \in Instances, ip \in IPs : CheckBegin(p, ip)
    \/ \E p \in Instances : CheckSelect(p) \/ CheckInsert(p) \/ CheckEnd(p)
    \/ \E d \in MinuteSteps : Minute(d)

SpecLimit == Init /\ [][NextLimit]_vars

\* Requests to the routes that trigger the ingestion, served one at a time.
NextHttp ==
    \/ \E req \in Requests : Receive(req)
    \/ started < MaxHttpRuns /\ debug_ingest(CfgA)
    \/ started < MaxHttpRuns /\ debug_pull_feeds(CfgA)
    \/ started < MaxHttpRuns /\ cron_pull_feeds_get(CfgA)
    \/ started < MaxHttpRuns /\ cron_pull_feeds_post(CfgA)
    \/ \E f \in FeedIds, outcome \in ConcOutcomes : FetchDone(1, f, outcome)
    \/ Step(1)
    \/ Respond

SpecHttp == Init /\ [][NextHttp]_vars


(* ======================================================================= *)
(*                               Claims                                    *)
(* ======================================================================= *)

\* C1: in every reachable state of the items table, whatever runs (also two
\* whose PERSIST phases interleave) and retention sweeps have happened, no
\* two rows have the same (feed_id, url); rows of different feeds may share
\* a url.
C1_DedupInvariant ==
    \A x \in items, y \in items :
        (x.feed_id = y.feed_id /\ x.url = y.url) => x = y

\* One run has committed the same url under both feeds while the other run
\* is inside PERSIST with uncommitted item writes of its own.
C1_Witness ==
    /\ \E r \in Procs : proc[r].pc = "persist" /\ proc[r].tx.items # {}
    /\ \E r \in Procs : proc[r].pc \in {"finalize", "cleanup", "done"}
    /\ \E x \in items, y \in items : x.url = y.url /\ x.feed_id # y.feed_id


(* ----------------------------------------------------------------------- *)
\* An item row without its fetched_at.
Content(it) ==
    [id |-> it.id, feed_id |-> it.feed_id, title |-> it.title,
     summary |-> it.summary, url |-> it.url, published_at |-> it.published_at,
     category |-> it.category]
Contents(rows) == {Content(it) : it \in rows}

AfterPersist(r) == proc[r].pc \in {"finalize", "cleanup", "done"}
EnabledIds(r) == ConfigFeedIds(proc[r].enabled_feeds)

\* Run r follows a run of the same configuration in which every feed
\* returned the 200 response it returns now.
SameBodiesAgain(r) ==
    /\ proc[r].prev.config = proc[r].config
    /\ \A f \in EnabledIds(r) :
          /\ Is200(proc[r].fetch_results[f])
          /\ proc[r].prev.fetch_results[f] = proc[r].fetch_results[f]

\* C2: when run_rss_ingest runs twice in succession and every feed returns
\* the same 200 body both times, the second run creates no item row and
\* leaves id, title, summary, url, published_at and category of every item
\* as they were: when its PERSIST has committed the items table differs from
\* the one it found in fetched_at only, and every row it wrote is there at
\* the end of the run.
C2_Idempotence ==
    \A r \in Procs :
        (AfterPersist(r) /\ SameBodiesAgain(r)) =>
            /\ Contents(items) \subseteq Contents(proc[r].startItems)
            /\ proc[r].pc \in {"finalize", "cleanup"} =>
                  Contents(items) = Contents(proc[r].startItems)
            /\ \A k \in DOMAIN proc[r].writes :
                  ConflictRows(items, proc[r].writes[k][1],
                               proc[r].writes[k][2].link) # {}

\* A second run over unchanged bodies has finished, it executed upserts,
\* and a row it found has a later fetched_at now.
C2_Witness ==
    /\ proc[1].pc = "done"
    /\ SameBodiesAgain(1)
    /\ proc[1].writes # <<>>
    /\ \E it \in items, old \in proc[1].startItems :
          it.id = old.id /\ it.fetched_at > old.fetched_at


(* ----------------------------------------------------------------------- *)
Healthy(res) == Is200(res) /\ ~res.bozo
RunRows(r) == {run \in runs : run.id = proc[r].run_id}

\* The rows insert_items leaves for a healthy response: one per valid entry
\* among the first max_items.
Persisted(f, res) ==
    \A k \in DOMAIN Truncate(res.entries, MaxItems) :
        ValidEntry(res.entries[k]) => ConflictRows(items, f, res.entries[k].link) # {}

\* Exactly one enabled feed's fetch failed; the others returned a parseable 200.
OneFetchFails(r) ==
    \E k \in EnabledIds(r) :
        /\ proc[r].fetch_results[k].kind = "error"
        /\ \A g \in EnabledIds(r) \ {k} : Healthy(proc[r].fetch_results[g])

\* C3: with N enabled feeds of which exactly one fails to fetch while the
\* others return parseable 200 bodies, the run does not raise and always has
\* a next step until it has returned; it reports feeds_succeeded = N-1,
\* feeds_failed = 1 and status partial in its summary and in its Run row,
\* and the items of the other feeds are in the store.
C3_Isolation ==
    \A r \in Procs :
        (proc[r].pc \in {"persist", "finalize", "cleanup", "done"} /\ OneFetchFails(r)) =>
            /\ proc[r].pc # "done" => ENABLED (Step(r) \/ FailStep(r))
            /\ AfterPersist(r) =>
                  \A g \in EnabledIds(r) :
                      Healthy(proc[r].fetch_results[g]) =>
                          Persisted(g, proc[r].fetch_results[g])
            /\ proc[r].pc = "done" =>
                  /\ proc[r].summary.total_feeds = Len(proc[r].enabled_feeds)
                  /\ proc[r].summary.feeds_succeeded = Len(proc[r].enabled_feeds) - 1
                  /\ proc[r].summary.feeds_failed = 1
                  /\ proc[r].summary.status = "partial"
                  /\ \A run \in RunRows(r) :
                        /\ run.status = "partial"
                        /\ run.feeds_failed = 1
                        /\ run.feeds_succeeded = Len(proc[r].enabled_feeds) - 1
                  /\ RunRows(r) # {}

\* A run over two feeds has returned; the first feed's fetch failed and the
\* second feed's items are in the store.
C3_Witness ==
    /\ proc[1].pc = "done"
    /\ proc[1].total_feeds = 2
    /\ proc[1].fetch_results["a"].kind = "error"
    /\ Healthy(proc[1].fetch_results["b"])
    /\ \E it \in items : it.feed_id = "b"


(* ----------------------------------------------------------------------- *)
\* The outcomes the run counts as succeeded: 304, or a parseable 200.
Succeeded(res) ==
    res.kind = "response" /\ (res.status_code = 304 \/ Healthy(res))
NoFeedFailed(r) == \A f \in EnabledIds(r) : Succeeded(proc[r].fetch_results[f])

C4_StatusState ==
    /\ \A run \in runs : run.status \in {"running", "success", "partial"}
    /\ \A r \in Procs :
          /\ proc[r].pc \in {"prepare", "fetch", "persist", "finalize"} =>
                \A run \in RunRows(r) :
                    run.status = "running" /\ run.finished_at = NoTime
          /\ proc[r].pc \in {"cleanup", "done"} =>
                \A run \in RunRows(r) :
                    /\ run.status = IF NoFeedFailed(r) THEN "success" ELSE "partial"
                    /\ run.finished_at # NoTime

C4_StatusStep ==
    \A run \in runs : \A after \in runs' :
        (after.id = run.id /\ after # run) =>
            /\ run.status = "running"
            /\ after.status \in {"success", "partial"}
            /\ \E r \in Procs :
                  /\ proc[r].run_id = run.id
                  /\ proc[r].pc = "finalize"
                  /\ proc'[r].pc = "cleanup"

\* C4: FINALIZE sets a run's status to success iff none of its feeds failed
\* and to partial otherwise; a Run row's status is always one of running,
\* success, partial; a row changes only once, from running to its final
\* value, and only in the FINALIZE step of the run that created it.
C4_Status == [](C4_StatusState) /\ [][C4_StatusStep]_vars

\* A finalized partial run next to an earlier run finalized as success.
C4_Witness ==
    /\ proc[1].pc = "done"
    /\ ~NoFeedFailed(1)
    /\ \E run \in RunRows(1) : run.status = "partial"
    /\ \E run \in runs : run.status = "success"


(* ----------------------------------------------------------------------- *)
\* The upserts run r has executed for feed f, in the order it executed them.
WritesOf(r, f) == SelectSeq(proc[r].writes, LAMBDA w : w[1] = f)
AllValid(res) == \A k \in DOMAIN res.entries : ValidEntry(res.entries[k])
FirstEntries(f, res) ==
    [k \in 1..Min(Len(res.entries), MaxItems) |-> <<f, res.entries[k]>>]

\* C5: for a feed that returns 200 with n entries, all with title and link,
\* the run executes exactly min(n, max_items) item upserts for it, those of
\* the first min(n, max_items) entries in source order; and no run executes
\* more than max_items upserts for one feed.
C5_Truncation ==
    \A r \in Procs :
        /\ \A f \in FeedIds : Len(WritesOf(r, f)) <= MaxItems
        /\ AfterPersist(r) =>
              \A f \in EnabledIds(r) :
                  (Healthy(proc[r].fetch_results[f]) /\ AllValid(proc[r].fetch_results[f])) =>
                      WritesOf(r, f) = FirstEntries(f, proc[r].fetch_results[f])

\* A run has persisted a feed whose body holds more valid entries than
\* max_items, and executed max_items upserts for it.
C5_Witness ==
    /\ AfterPersist(1)
    /\ Healthy(proc[1].fetch_results["a"])
    /\ AllValid(proc[1].fetch_results["a"])
    /\ Len(proc[1].fetch_results["a"].entries) > MaxItems
    /\ Len(WritesOf(1, "a")) = MaxItems


(* ----------------------------------------------------------------------- *)
ItemsOf(rows, f) == {it \in rows : it.feed_id = f}
ErrorsOf(r, f) ==
    {e \in errors : e.run_id = proc[r].run_id /\ e.feed_id = f}
\* The validators the store held for feed f when run r was called.
StoredValidators(r, f) == get_feed_metadata(proc[r].startFeeds, f)
Is304(res) == res.kind = "response" /\ res.status_code = 304

\* C6: for a feed whose fetch returned 304 the run executes no item upsert,
\* leaves the feed's item rows as they were, records no FeedRunError, leaves
\* etag and last_modified of the Feed row at their stored values, sets
\* last_fetched_at, and counts the feed in feeds_succeeded.
C6_NotModified ==
    \A r \in Procs :
        AfterPersist(r) =>
            /\ proc[r].feeds_succeeded =
                  Cardinality({f \in EnabledIds(r) : Succeeded(proc[r].fetch_results[f])})
            /\ \A f \in EnabledIds(r) :
                  Is304(proc[r].fetch_results[f]) =>
                      /\ WritesOf(r, f) = <<>>
                      /\ ErrorsOf(r, f) = {}
                      /\ feeds[f] # NoRow
                      /\ feeds[f].etag = StoredValidators(r, f).etag
                      /\ feeds[f].last_modified = StoredValidators(r, f).last_modified
                      /\ feeds[f].enabled
                      /\ proc[r].pc \in {"finalize", "cleanup"} =>
                            /\ feeds[f].last_fetched_at = clock
                            /\ ItemsOf(items, f) = ItemsOf(proc[r].startItems, f)

\* A run has persisted a 304 for a feed that had validators and items stored
\* by an earlier run, some time ago.
C6_Witness ==
    /\ proc[1].pc = "cleanup"
    /\ Is304(proc[1].fetch_results["a"])
    /\ StoredValidators(1, "a").etag # NULL
    /\ ItemsOf(proc[1].startItems, "a") # {}
    /\ proc[1].startFeeds["a"].last_fetched_at < clock


(* ----------------------------------------------------------------------- *)
\* What one feed's own fetch result does to that feed's rows, computed
\* apart from the run: the rows of the feed after its entries are upserted
\* in order.
RECURSIVE ApplyEntries(_, _, _, _)
ApplyEntries(rows, f, entries, now) ==
    IF entries = <<>> THEN rows
    ELSE IF ~ValidEntry(Head(entries)) THEN ApplyEntries(rows, f, Tail(entries), now)
    ELSE LET row == UpsertItemRow(rows, f, Head(entries), now, 0) IN
         ApplyEntries((rows \ ConflictRows(rows, f, Head(entries).link)) \cup {row},
                      f, Tail(entries), now)

\* An item row without its generated id.
NoId(it) ==
    [feed_id |-> it.feed_id, title |-> it.title, summary |-> it.summary,
     url |-> it.url, published_at |-> it.published_at, category |-> it.category,
     fetched_at |-> it.fetched_at]

ExpectedItems(r, g) ==
    IF Healthy(proc[r].fetch_results[g])
    THEN ApplyEntries(ItemsOf(proc[r].startItems, g), g,
                      SubSeq(proc[r].fetch_results[g].entries, 1,
                             Min(Len(proc[r].fetch_results[g].entries), MaxItems)),
                      clock)
    ELSE ItemsOf(proc[r].startItems, g)

ExpectedWrites(r, g) ==
    IF Healthy(proc[r].fetch_results[g])
    THEN SelectSeq(FirstEntries(g, proc[r].fetch_results[g]),
                   LAMBDA w : ValidEntry(w[2]))
    ELSE <<>>

\* The Feed row as PREPARE leaves it.
PreparedFeed(r, g) ==
    IF proc[r].startFeeds[g] = NoRow THEN NewFeedRow(FeedConfig(g, TRUE))
    ELSE [proc[r].startFeeds[g] EXCEPT !.enabled = TRUE]

ExpectedFeed(r, g) ==
    LET res == proc[r].fetch_results[g] IN
    IF Healthy(res)
    THEN [PreparedFeed(r, g) EXCEPT !.etag = res.etag,
                                    !.last_modified = res.last_modified,
                                    !.last_fetched_at = clock]
    ELSE IF Is304(res)
    THEN [PreparedFeed(r, g) EXCEPT !.last_fetched_at = clock]
    ELSE PreparedFeed(r, g)

\* Feed g's part of the committed PERSIST of run r is what g's own fetch
\* result determines.
OwnOutcome(r, g) ==
    /\ WritesOf(r, g) = ExpectedWrites(r, g)
    /\ {NoId(it) : it \in ItemsOf(items, g)} = {NoId(it) : it \in ExpectedItems(r, g)}
    /\ feeds[g] = ExpectedFeed(r, g)
    /\ Cardinality(ErrorsOf(r, g)) =
          IF Succeeded(proc[r].fetch_results[g]) THEN 0 ELSE 1

Malformed(res) == Is200(res) /\ res.bozo

\* C7: for a feed whose 200 body the parser reports as malformed the run
\* records exactly one FeedRunError, of type parse_error, counts the feed as
\* failed, executes no item upsert for it and leaves its rows alone, does
\* not raise and always has a next step until it returns; and for every
\* other feed of the run the upserts, item rows, Feed row and error rows are
\* the ones that feed's own fetch result determines.
C7_MalformedIsolated ==
    \A r \in Procs : \A f \in EnabledIds(r) :
        (proc[r].pc \in {"persist", "finalize", "cleanup", "done"}
            /\ Malformed(proc[r].fetch_results[f])) =>
            /\ proc[r].pc # "done" => ENABLED (Step(r) \/ FailStep(r))
            /\ WritesOf(r, f) = <<>>
            /\ AfterPersist(r) =>
                  /\ \E e \in ErrorsOf(r, f) :
                        ErrorsOf(r, f) = {e} /\ e.error_type = "parse_error"
                  /\ proc[r].feeds_failed =
                        Cardinality({g \in EnabledIds(r) :
                                        ~Succeeded(proc[r].fetch_results[g])})
            /\ proc[r].pc \in {"finalize", "cleanup"} =>
                  /\ ItemsOf(items, f) = ItemsOf(proc[r].startItems, f)
                  /\ feeds[f] = PreparedFeed(r, f)
                  /\ \A g \in EnabledIds(r) \ {f} : OwnOutcome(r, g)

\* A run has committed PERSIST; its first feed was malformed and has its
\* parse_error row, its second feed was healthy and has been upserted.
C7_Witness ==
    /\ proc[1].pc = "cleanup"
    /\ Malformed(proc[1].fetch_results["a"])
    /\ Healthy(proc[1].fetch_results["b"])
    /\ WritesOf(1, "b") # <<>>
    /\ ItemsOf(items, "b") # {}
    /\ ErrorsOf(1, "a") # {}


(* ----------------------------------------------------------------------- *)
Unlisted(r) == FeedIds \ ConfigFeedIds(proc[r].config)

\* C8: once a run has passed its removal step, and until it has returned,
\* a feed its configuration does not list has no Feed row and no Item row;
\* and right after the removal step the Feed row and the Item rows of every
\* feed the configuration lists (enabled or not) are the ones the run found.
C8_ConfigRemoval ==
    \A r \in Procs :
        /\ proc[r].pc \notin {"idle", "removal", "raised"} =>
              \A f \in Unlisted(r) :
                  feeds[f] = NoRow /\ ItemsOf(items, f) = {}
        /\ proc[r].pc = "runrow" =>
              \A f \in ConfigFeedIds(proc[r].config) :
                  /\ feeds[f] = proc[r].startFeeds[f]
                  /\ ItemsOf(items, f) = ItemsOf(proc[r].startItems, f)

\* A run configured with feed a alone has just removed feed b, which had a
\* Feed row and items from an earlier run; feed a had items too.
C8_Witness ==
    /\ proc[1].pc = "runrow"
    /\ proc[1].config = CfgA
    /\ proc[1].startFeeds["b"] # NoRow
    /\ ItemsOf(proc[1].startItems, "b") # {}
    /\ ItemsOf(proc[1].startItems, "a") # {}
    /\ feeds["b"] = NoRow

(* ----------------------------------------------------------------------- *)
\* C9: when cleanup_old_data completes, no Item fetched more than 7 days
\* ago remains, every Item fetched within 7 days is still there, and no Run
\* started and no FeedRunError created more than 30 days ago remains.
C9_Retention ==
    [][\A r \in Procs :
          (proc[r].pc = "cleanup" /\ proc'[r].pc = "done") =>
              /\ \A it \in items' : ~(it.fetched_at < clock - Days(ITEMS_RETENTION_DAYS))
              /\ \A it \in items :
                    ~(it.fetched_at < clock - Days(ITEMS_RETENTION_DAYS)) => it \in items'
              /\ \A run \in runs' : ~(run.started_at < clock - Days(RUNS_RETENTION_DAYS))
              /\ \A e \in errors' : ~(e.created_at < clock - Days(ERRORS_RETENTION_DAYS))]_vars

(* ----------------------------------------------------------------------- *)
PhaseOrder ==
    <<"removal", "runrow", "prepare", "fetch", "persist", "finalize", "cleanup", "done">>

Rank(pc) == CHOOSE k \in 1..Len(PhaseOrder) : PhaseOrder[k] = pc

Returned(r) == proc[r].pc \in {"idle", "done", "raised"}

\* The Run row of the invocation has been finalized.
Finalized(r) ==
    \E run \in runs : run.id = proc[r].run_id /\ run.status # "running"

C10_PhaseStep ==
    \A r \in Procs :
        LET invoked == Returned(r) /\ proc'[r].pc = "removal" IN
        /\ proc'[r].pc # proc[r].pc =>
              \/ invoked
              \/ /\ ~Returned(r)
                 /\ Rank(proc'[r].pc) = Rank(proc[r].pc) + 1
        /\ (proc'[r].fetch_results # proc[r].fetch_results /\ ~invoked) =>
              proc[r].pc = "fetch" /\ proc'[r].pc = "fetch"
        /\ (proc'[r].writes # proc[r].writes /\ ~invoked) =>
              proc[r].pc = "persist" /\ ~Finalized(r)
        /\ (proc'[r].tx # proc[r].tx /\ ~invoked) => proc[r].pc = "persist"
        /\ (items' \ items # {}) => \E q \in Procs : proc[q].pc = "persist" /\ ~Finalized(q)
        /\ (proc[r].pc = "cleanup" /\ proc'[r].pc = "done") => Finalized(r)
        /\ (proc[r].pc = "finalize" /\ proc'[r].pc = "cleanup") =>
              /\ ~Finalized(r)
              /\ \E run \in runs' : run.id = proc[r].run_id /\ run.status # "running"

\* C10: an invocation goes through removal, run row, PREPARE, FETCH,
\* PERSIST, FINALIZE, CLEANUP and DONE one step at a time and never back; a
\* fetch result arrives only during FETCH, an item is written only during
\* PERSIST and before the Run row is finalized, FINALIZE is what finalizes
\* the Run row, and the sweep runs only once the Run row is finalized.
C10_PhaseOrder == [][C10_PhaseStep]_vars

\* A run has returned after fetching both feeds, writing items and
\* finalizing its Run row, and its sweep has deleted an expired item.
C10_Witness ==
    /\ proc[1].pc = "done"
    /\ proc[1].writes # <<>>
    /\ \A f \in EnabledIds(1) : proc[1].fetch_results[f] # NoResult
    /\ Cardinality(EnabledIds(1)) = 2
    /\ Finalized(1)
    /\ proc[1].summary.items_deleted > 0
    /\ rateLimitsTable


(* ----------------------------------------------------------------------- *)
\* The upserts of invocation r have reached the store.
Committed(r) == proc[r].pc \in {"finalize", "cleanup", "done"}

\* C11: when two invocations overlap, under every interleaving of their
\* database steps neither of them raises, each one that has returned has
\* its own Run row finalized, no two Item rows share (feed_id, url), and
\* every item either run persisted is in the store.
C11_OverlapSafe ==
    /\ \A r \in Procs : proc[r].pc # "raised"
    /\ \A r \in Procs : proc[r].pc = "done" =>
          \E run \in runs : /\ run.id = proc[r].run_id
                            /\ run.status \in {"success", "partial"}
                            /\ run.finished_at # NoTime
    /\ \A x \in items, y \in items :
          (x.feed_id = y.feed_id /\ x.url = y.url) => x.id = y.id
    /\ \A r \in Procs : Committed(r) =>
          \A k \in DOMAIN proc[r].writes :
              \E it \in items : /\ it.feed_id = proc[r].writes[k][1]
                                /\ it.url = proc[r].writes[k][2].link


(* ----------------------------------------------------------------------- *)
\* The (feed_id, url) keys invocation r upserted that had no Item row when
\* the invocation began: the rows it created.
CreatedKeys(r) ==
    {<<proc[r].writes[k][1], proc[r].writes[k][2].link>> : k \in DOMAIN proc[r].writes}
        \ {<<it.feed_id, it.url>> : it \in proc[r].startItems}

\* C12: the run's items_inserted is the number of Item rows its upserts
\* created; refreshed rows are not counted, so a run over the same bodies
\* as the run before it, all of whose items are still stored, reports
\* items_inserted = 0.
C12_InsertedCount ==
    \A r \in Procs :
        /\ AfterPersist(r) => proc[r].items_inserted = Cardinality(CreatedKeys(r))
        /\ (proc[r].pc = "done" /\ SameBodiesAgain(r) /\ CreatedKeys(r) = {}) =>
              proc[r].summary.items_inserted = 0


(* ----------------------------------------------------------------------- *)
\* C13: when the retention sweep raises, run_rss_ingest returns its
\* summary all the same, the Run row is left as FINALIZE wrote it, the
\* summary carries the status and the counts of that row, and items_deleted
\* is 0.
C13_SweepFailure ==
    [][\A r \in Procs :
          (proc[r].pc = "cleanup" /\ proc'[r].fault = "cleanup") =>
              /\ proc'[r].pc = "done"
              /\ store' = store
              /\ proc'[r].summary.items_deleted = 0
              /\ \E run \in runs' :
                    /\ run.id = proc'[r].summary.run_id
                    /\ run.status = proc'[r].summary.status
                    /\ run.status \in {"success", "partial"}
                    /\ run.feeds_failed = proc'[r].summary.feeds_failed
                    /\ run.feeds_succeeded = proc'[r].summary.feeds_succeeded
                    /\ run.items_inserted = proc'[r].summary.items_inserted]_vars

\* A run has returned after a sweep that raised while an expired item was
\* waiting to be deleted.
C13_Witness ==
    /\ proc[1].pc = "done"
    /\ proc[1].fault = "cleanup"
    /\ proc[1].summary.items_deleted = 0
    /\ ExpiredItems(clock) # {}
    /\ proc[1].summary.status = "partial"


(* ----------------------------------------------------------------------- *)
\* C14: an invocation that has inserted its Run row and has ended, by
\* returning or by raising, has finalized that row (status success or
\* partial, finished_at set), whatever the fetches, the parser, the item
\* upserts and the feed-metadata updates of its feeds did: no error of a
\* single feed leaves run_rss_ingest or leaves the Run row in status
\* running.
C14_AlwaysFinalized ==
    \A r \in Procs :
        /\ (proc[r].pc \in {"done", "raised"} /\ proc[r].run_id # 0
                /\ proc[r].fault \notin {"config_entry"}) =>
              \E run \in runs : /\ run.id = proc[r].run_id
                                /\ run.status \in {"success", "partial"}
                                /\ run.finished_at # NoTime
        /\ proc[r].fault \in {"item_write", "feed_write"} => proc[r].pc # "raised"


(* ----------------------------------------------------------------------- *)
\* The invocation ended with an error of its configuration: the resource
\* is absent, is not JSON, or has an enabled feed entry without a key the
\* run needs.
ConfigFailed(r) ==
    proc[r].pc = "raised" /\ proc[r].fault \in LoadFaults \cup {"config_entry"}

\* C16: an invocation that fails on a missing or malformed configuration
\* raises before it has changed the store: the Feed and Item rows are the
\* ones it found, it has created no Run row and it has fetched no feed.
C16_ConfigFailure ==
    \A r \in Procs :
        ConfigFailed(r) =>
            /\ feeds = proc[r].startFeeds
            /\ items = proc[r].startItems
            /\ proc[r].run_id = 0
            /\ \A f \in FeedIds : proc[r].fetch_results[f] = NoResult


(* ----------------------------------------------------------------------- *)
\* rss_ingest.py:378-379  what fetch_feed_parallel returns for a Timeout
TimedOut(res) == res.kind = "error" /\ res.error = "Request timeout"

\* C17: a feed whose fetch ended in a timeout has one FeedRunError of type
\* timeout, a feed whose fetch failed in any other way has one of type
\* http_error; either feed is counted as failed and no item upsert is
\* executed for it.
C17_ErrorTaxonomy ==
    \A r \in Procs : \A f \in EnabledIds(r) :
        (AfterPersist(r) /\ proc[r].fetch_results[f].kind = "error") =>
            /\ \E e \in ErrorsOf(r, f) :
                  /\ ErrorsOf(r, f) = {e}
                  /\ e.error_type =
                        IF TimedOut(proc[r].fetch_results[f]) THEN "timeout"
                        ELSE "http_error"
            /\ proc[r].feeds_failed =
                  Cardinality({g \in EnabledIds(r) :
                                  ~Succeeded(proc[r].fetch_results[g])})
            /\ WritesOf(r, f) = <<>>


(* ----------------------------------------------------------------------- *)
Ended == call.pc \in {"returned", "raised"}
IsTimeout(o) == o.kind = "exception" /\ o.type = "Timeout"
IsRetryable(o) == o.kind = "response" /\ o.status_code \in {429, 500, 502, 503, 504}

C18_RetryState ==
    /\ Len(call.trace) <= 3
    /\ \A k \in DOMAIN call.trace :
          k > 1 => IsRetryable(call.trace[k - 1]) \/ IsTimeout(call.trace[k - 1])
    /\ \A k \in DOMAIN call.slept : call.slept[k] = 2 ^ (k - 1)
    /\ Len(call.trace) <= Len(call.slept) + 1
    /\ Len(call.slept) <= 2
    /\ Ended => Len(call.slept) = Len(call.trace) - 1
    /\ Ended => call.result.kind \in {"response", "exception"}

\* C18: a call of fetch_rss_feed makes at most 3 attempts, makes a further
\* attempt only after a response with status 429, 500, 502, 503 or 504 or a
\* timeout, has waited 1 second before the second attempt and 2 seconds
\* before the third, has not waited after its last attempt, and ends by
\* returning a response or raising.
C18_Retry == [](C18_RetryState) /\ <>(Ended)

\* A call has ended after three attempts and waits of 1 and 2 seconds.
C18_Witness ==
    /\ Ended
    /\ Len(call.trace) = 3
    /\ call.slept = <<1, 2>>
    /\ IsTimeout(call.trace[1])
    /\ IsRetryable(call.trace[2])

(* ----------------------------------------------------------------------- *)
\* C19: an attempt that receives a response whose status is not 429, 500,
\* 502, 503 or 504 is the last attempt of the call, and the call returns
\* that response.
C19_NoRetry ==
    \A k \in DOMAIN call.trace :
        (call.trace[k].kind = "response" /\ ~IsRetryable(call.trace[k])) =>
            /\ k = Len(call.trace)
            /\ call.pc = "returned"
            /\ call.result = call.trace[k]

\* A call has returned a 404 it received on its second attempt.
C19_Witness ==
    /\ call.pc = "returned"
    /\ Len(call.trace) = 2
    /\ call.result.status_code = 404

(* ----------------------------------------------------------------------- *)
LastOutcome == call.trace[Len(call.trace)]

\* C20: a call that ends in failure raises a timeout error if its last
\* attempt timed out and an HTTP error if its last attempt received a
\* retryable status; a connection-level failure ends the call in the
\* attempt it occurs in; a returned response never has a retryable status;
\* and the untyped error after the loop is never raised.
C20_TypedFailure ==
    /\ call.pc = "raised" =>
          /\ IsTimeout(LastOutcome) => call.result = Raised("Timeout")
          /\ IsRetryable(LastOutcome) => call.result = Raised("HTTPError")
          /\ call.result.type # "RuntimeError"
    /\ \A k \in DOMAIN call.trace :
          (call.trace[k].kind = "exception" /\ ~IsTimeout(call.trace[k])) =>
              /\ k = Len(call.trace)
              /\ call.pc = "raised"
              /\ call.result = call.trace[k]
    /\ call.pc = "returned" =>
          /\ call.result.kind = "response"
          /\ ~IsRetryable(call.result)

\* A call has raised a timeout error after a 503 and two timeouts.
C20_Witness ==
    /\ call.pc = "raised"
    /\ Len(call.trace) = 3
    /\ IsRetryable(call.trace[1])
    /\ IsTimeout(call.trace[2])
    /\ IsTimeout(call.trace[3])
    /\ call.result = Raised("Timeout")


(* ----------------------------------------------------------------------- *)
\* The secrets a request presents in its headers.
Presented(req) ==
    (IF req.authorization # NoHeader /\ req.authorization.scheme = "Bearer"
     THEN {req.authorization.credentials} ELSE {})
        \cup (IF req.x_cron_secret # NULL THEN {req.x_cron_secret} ELSE {})

\* run_rss_ingest has been started for the request being served.
RunStarted == http.route # "none" /\ started > http.seq

\* C15: run_rss_ingest is started for a request only when CRON_SECRET is
\* set and the request presented a secret equal to it, whichever route the
\* request came to.
C15_SecretFirst ==
    RunStarted =>
        /\ http.CRON_SECRET \notin {NULL, ""}
        /\ http.CRON_SECRET \in Presented(http)


(* ----------------------------------------------------------------------- *)
\* rss_ingest.py:663  the response the fetcher returned is neither 200 nor 304
OtherStatus(res) == res.kind = "response" /\ res.status_code \notin {200, 304}

\* C21: a feed for which the fetcher returned a response whose status is
\* neither 200 nor 304 has exactly one FeedRunError of the run, of type
\* http_error and with that status as http_status; the feed is counted as
\* failed, no item upsert is executed for it and its item rows stay as they
\* were.
C21_OtherStatus ==
    \A r \in Procs : \A f \in EnabledIds(r) :
        (proc[r].pc \in {"persist", "finalize", "cleanup", "done"}
            /\ OtherStatus(proc[r].fetch_results[f])) =>
            /\ WritesOf(r, f) = <<>>
            /\ AfterPersist(r) =>
                  /\ \E e \in ErrorsOf(r, f) :
                        /\ ErrorsOf(r, f) = {e}
                        /\ e.error_type = "http_error"
                        /\ e.http_status = proc[r].fetch_results[f].status_code
                  /\ proc[r].feeds_failed =
                        Cardinality({g \in EnabledIds(r) :
                                        ~Succeeded(proc[r].fetch_results[g])})
                  /\ proc[r].feeds_succeeded =
                        Cardinality({g \in EnabledIds(r) :
                                        Succeeded(proc[r].fetch_results[g])})
            /\ proc[r].pc \in {"finalize", "cleanup"} =>
                  ItemsOf(items, f) = ItemsOf(proc[r].startItems, f)

\* A run over two feeds has returned: the first feed answered 404 and has
\* its http_error row with status 404, the second was healthy and counted
\* as succeeded.
C21_Witness ==
    /\ proc[1].pc = "done"
    /\ proc[1].fetch_results["a"] = NotFound404
    /\ Healthy(proc[1].fetch_results["b"])
    /\ \E e \in ErrorsOf(1, "a") : e.http_status = 404
    /\ proc[1].summary.feeds_failed = 1
    /\ proc[1].summary.feeds_succeeded = 1


(* ----------------------------------------------------------------------- *)
\* The feed_run_errors rows of run r.
RunErrors(r) == {e \in errors : e.run_id = proc[r].run_id}

C22_ErrorRowsState ==
    \A r \in Procs :
        /\ AfterPersist(r) =>
              /\ \A f \in EnabledIds(r) :
                    Cardinality(ErrorsOf(r, f)) =
                        IF Succeeded(proc[r].fetch_results[f]) THEN 0 ELSE 1
              /\ Cardinality(RunErrors(r)) = proc[r].feeds_failed
              /\ proc[r].feeds_succeeded + proc[r].feeds_failed = proc[r].total_feeds
        /\ proc[r].pc \in {"cleanup", "done"} =>
              \A run \in RunRows(r) : run.feeds_failed = Cardinality(RunErrors(r))
        /\ (proc[r].pc \in {"prepare", "fetch", "persist", "raised"}
                /\ proc[r].run_id # 0) =>
              RunErrors(r) = {}

C22_ErrorRowsStep ==
    /\ \A e \in errors : \A after \in errors' : after.id = e.id => after = e
    /\ \A after \in errors' :
          (\A e \in errors : e.id # after.id) =>
              \E r \in Procs :
                  /\ proc[r].pc = "persist"
                  /\ proc'[r].pc = "finalize"
                  /\ after.run_id = proc[r].run_id

\* C22: a run that has committed PERSIST has exactly one FeedRunError row
\* for each of its feeds counted as failed and none for a feed counted as
\* succeeded, so the rows with its run_id are as many as its feeds_failed,
\* in its counters and in its Run row; a FeedRunError row never changes, and
\* a new one appears only when the run it belongs to commits PERSIST.
C22_ErrorRows == [](C22_ErrorRowsState) /\ [][C22_ErrorRowsStep]_vars

\* A run has returned with both feeds failed and two error rows of its own,
\* next to an error row of an earlier run.
C22_Witness ==
    /\ proc[1].pc = "done"
    /\ proc[1].summary.feeds_failed = 2
    /\ Cardinality(RunErrors(1)) = 2
    /\ \E e \in errors : e.run_id # proc[1].run_id


(* ----------------------------------------------------------------------- *)
\* The stages of a fetch task, in the order a task goes through them.
TaskRank(stage) ==
    CASE stage = "none" -> 0 [] stage = "queued" -> 1
      [] stage = "running" -> 2 [] stage = "finished" -> 3

\* One of response and error is set, the other is not.
OneOfResponseError(res) ==
    /\ res # NoResult
    /\ (res.response # NoResponse) # (res.error # NULL)

C23_FetchState ==
    /\ Cardinality(Running) <= MAX_WORKERS
    /\ \A k \in PoolFeeds : pool.dispatched[k] <= 1
    /\ pool.pc \in {"collect", "ended"} =>
          \A k \in PoolFeeds : pool.dispatched[k] = 1
    /\ \A k \in PoolFeeds :
          pool.fetch_results[k] # NoResult => OneOfResponseError(pool.fetch_results[k])
    /\ pool.pc = "ended" =>
          \A k \in PoolFeeds :
              /\ pool.task[k] = "finished"
              /\ pool.fetch_results[k] = pool.returned[k]
              /\ OneOfResponseError(pool.fetch_results[k])

C23_FetchStep ==
    \A k \in PoolFeeds :
        /\ TaskRank(pool'.task[k]) >= TaskRank(pool.task[k])
        /\ pool.returned[k] # NoResult => pool'.returned[k] = pool.returned[k]
        /\ pool.fetch_results[k] # NoResult =>
              pool'.fetch_results[k] = pool.fetch_results[k]
        /\ (pool.task[k] = "running" /\ pool'.task[k] = "running") =>
              \A j \in PoolFeeds \ {k} :
                  pool.task[j] = "running" => ENABLED (\E result \in FetchEnds : FinishTask(j, result))

\* C23: in FETCH one task is dispatched per enabled feed, never more than
\* MAX_WORKERS tasks run at a time, a task never goes back or is dropped
\* whatever the other tasks do, a result once returned or collected is not
\* changed, FETCH ends, and when it has ended every enabled feed has exactly
\* one (response, error) result with exactly one of the two set.
C23_Fetch == [](C23_FetchState) /\ [][C23_FetchStep]_vars /\ <>(pool.pc = "ended")

\* FETCH has ended after MAX_WORKERS tasks were running while another
\* waited in the queue: the first feed timed out, the last has a response.
C23_Witness ==
    /\ pool.pc = "ended"
    /\ pool.saturated
    /\ pool.fetch_results[1].error = "Request timeout"
    /\ pool.fetch_results[NumPoolFeeds].response # NoResponse


(* ----------------------------------------------------------------------- *)
\* The position of feed f in the enabled feeds of run r (registry order).
Position(r, f) ==
    CHOOSE k \in DOMAIN proc[r].enabled_feeds : proc[r].enabled_feeds[k].id = f

\* Every enabled feed of run r has been processed by the PERSIST loop.
LoopDone(r) == proc[r].pc = "persist" /\ proc[r].i > Len(proc[r].enabled_feeds)

\* C24: whatever the order in which the fetches completed, the statements
\* of PERSIST (item upserts, feed-metadata updates, FeedRunError inserts)
\* are executed feed by feed in the order of the configuration: a statement
\* of feed i is never executed after one of feed j when i precedes j, and
\* when the loop is done every enabled feed has had its statements.
C24_RegistryOrder ==
    \A r \in Procs :
        proc[r].pc = "persist" =>
            /\ \A m \in DOMAIN proc[r].log : \A n \in DOMAIN proc[r].log :
                  m < n => Position(r, proc[r].log[m][1]) <= Position(r, proc[r].log[n][1])
            /\ \A m \in DOMAIN proc[r].log :
                  Position(r, proc[r].log[m][1]) <= proc[r].i
            /\ LoopDone(r) =>
                  \A f \in EnabledIds(r) :
                      \E m \in DOMAIN proc[r].log : proc[r].log[m][1] = f

\* The fetch of feed b completed before that of feed a, and the loop of
\* PERSIST has upserted items of a, updated feed a and then recorded the
\* failure of b.
C24_Witness ==
    /\ LoopDone(1)
    /\ proc[1].completed = <<"b", "a">>
    /\ proc[1].enabled_feeds = EnabledFeeds(CfgAB)
    /\ \E m \in DOMAIN proc[1].log : proc[1].log[m] = <<"a", "items">>
    /\ proc[1].log[Len(proc[1].log)] = <<"b", "feed_run_errors">>


(* ----------------------------------------------------------------------- *)
\* Every item row there is: committed, or pending in an open session.
AllItemRows == items \cup UNION {proc[q].tx.items : q \in Procs}

\* The value a column has after the upsert of a candidate over a stored row.
Kept(candidate, stored) == IF candidate = NULL THEN stored ELSE candidate

C25_UpsertStep ==
    \A r \in Procs :
        Len(proc'[r].writes) = Len(proc[r].writes) + 1 =>
            LET w == proc'[r].writes[Len(proc'[r].writes)]
                f == w[1]
                entry == w[2]
                before == ConflictRows(VisibleItems(r), f, entry.link)
                after == ConflictRows(proc'[r].tx.items, f, entry.link)
            IN
            /\ Cardinality(after) = 1
            /\ \A new \in after :
                  /\ new.feed_id = f /\ new.url = entry.link
                  /\ new.fetched_at = clock
                  /\ IF before = {}
                     THEN /\ \A it \in AllItemRows : it.id # new.id
                          /\ new.title = entry.title
                          /\ new.summary = entry.summary
                          /\ new.published_at = entry.published
                          /\ new.category = NULL
                     ELSE \A old \in before :
                          /\ new.id = old.id
                          /\ new.title = Kept(entry.title, old.title)
                          /\ new.summary = Kept(entry.summary, old.summary)
                          /\ new.published_at = Kept(entry.published, old.published_at)
                          /\ new.category = old.category
            /\ {it \in proc'[r].tx.items : it.feed_id # f \/ it.url # entry.link} =
                  {it \in proc[r].tx.items : it.feed_id # f \/ it.url # entry.link}
            /\ items' = items

\* C25: an upsert of insert_items whose (feed_id, url) exists keeps the
\* row's id and category, replaces each of title, summary and published_at
\* only when the candidate's value is not null, and sets fetched_at to now;
\* one whose pair does not exist creates one row with a new id, the
\* candidate's fields, category null and fetched_at = now; no other row is
\* touched.
C25_Upsert == [][C25_UpsertStep]_vars

\* A row stored by an earlier run was upserted, last by a candidate with
\* title t1b and neither summary nor date: it has that title, the summary
\* and date it had, its old id and a later fetched_at; another row is new.
C25_Witness ==
    /\ proc[1].pc = "finalize"
    /\ \E k \in DOMAIN proc[1].writes : proc[1].writes[k] = <<"a", E1b>>
    /\ \E it \in items, old \in proc[1].startItems :
          /\ it.id = old.id /\ old.fetched_at < it.fetched_at
          /\ it.title = "t1b" /\ it.summary = "s1" /\ it.published_at = "p1"
    /\ \E it \in items : \A old \in proc[1].startItems : old.id # it.id


(* ----------------------------------------------------------------------- *)
\* The candidates of feed f whose upsert failed in run r.
SkippedOf(r, f) ==
    {proc[r].skipped[k][2] : k \in {m \in DOMAIN proc[r].skipped : proc[r].skipped[m][1] = f}}

\* Every candidate of a healthy feed that insert_items was to write and
\* whose upsert did not fail has its row.
OthersWritten(r) ==
    \A f \in EnabledIds(r) :
        Healthy(proc[r].fetch_results[f]) =>
            \A k \in DOMAIN Truncate(proc[r].fetch_results[f].entries, MaxItems) :
                LET entry == proc[r].fetch_results[f].entries[k] IN
                (ValidEntry(entry) /\ \A e \in SkippedOf(r, f) : e.link # entry.link) =>
                    ConflictRows(items, f, entry.link) # {}

\* The run has raised because the upsert of a candidate failed.
RaisedOnItem(r) == proc[r].pc = "raised" /\ proc[r].fault = "item_write"

\* C26: when the upsert of a candidate fails in insert_items the run goes
\* on: it does not raise for it, and once PERSIST is committed the other
\* candidates of the feed and of the other feeds have their rows, the feed
\* has no FeedRunError of the run and is counted as succeeded.
C26_ItemFailureSkipped ==
    \A r \in Procs :
        proc[r].skipped # <<>> =>
            /\ ~RaisedOnItem(r)
            /\ AfterPersist(r) =>
                  /\ OthersWritten(r)
                  /\ \A k \in DOMAIN proc[r].skipped :
                        ErrorsOf(r, proc[r].skipped[k][1]) = {}
                  /\ proc[r].feeds_succeeded =
                        Cardinality({g \in EnabledIds(r) :
                                        Succeeded(proc[r].fetch_results[g])})


(* ----------------------------------------------------------------------- *)
\* The DELETE on rate_limits fails in the sweep of run r.
RateLimitsDeleteFails(r) == proc[r].pc = "cleanup" /\ ~rateLimitsTable

\* C27: when one deletion of cleanup_old_data fails, here the one on
\* rate_limits because the table does not exist, the other deletions are
\* still in effect when cleanup returns: the expired items, runs and
\* feed_run_errors are gone.
C27_IndependentDeletes ==
    [][\A r \in Procs :
          (RateLimitsDeleteFails(r) /\ proc'[r].pc = "done") =>
              /\ items' = items \ ExpiredItems(clock)
              /\ runs' = runs \ ExpiredRuns(clock)
              /\ errors' \subseteq errors \ ExpiredErrors(clock)]_vars


(* ----------------------------------------------------------------------- *)
\* The fetch of feed f has been made in run r.
Fetched(r, f) == proc[r].request_headers[f] # NoRow

\* C28: the fetch of a feed carries If-None-Match iff an etag is stored for
\* the feed and If-Modified-Since iff a last_modified is stored, with the
\* stored values; in sequential runs these are the ETag and Last-Modified
\* of the feed's latest committed 200 outcome (none when it had none or
\* there is no such outcome), and a run in which the feed gets 304 or fails
\* leaves the stored validators as they were.
C28_ConditionalGet ==
    \A r \in Procs :
        /\ proc[r].pc \in {"fetch", "persist"} =>
              \A f \in EnabledIds(r) :
                  Fetched(r, f) =>
                      /\ proc[r].request_headers[f].If_None_Match # NULL
                            <=> feeds[f].etag # NULL
                      /\ proc[r].request_headers[f].If_Modified_Since # NULL
                            <=> feeds[f].last_modified # NULL
                      /\ proc[r].request_headers[f].If_None_Match =
                            proc[r].last200[f].etag
                      /\ proc[r].request_headers[f].If_Modified_Since =
                            proc[r].last200[f].last_modified
        /\ proc[r].pc \in {"fetch", "finalize", "cleanup", "done"} =>
              \A f \in FeedIds :
                  feeds[f] # NoRow => get_feed_metadata(feeds, f) = proc[r].last200[f]
        /\ AfterPersist(r) =>
              \A f \in EnabledIds(r) :
                  ~Healthy(proc[r].fetch_results[f]) =>
                      get_feed_metadata(feeds, f) = StoredValidators(r, f)

\* The second of two runs: feed a, whose 200 outcome of the first run came
\* with ETag e1 and Last-Modified m1, was fetched with both headers and
\* answered 304; feed b, which has no 200 outcome, was fetched without.
C28_Witness ==
    /\ proc[1].pc = "done"
    /\ proc[1].request_headers["a"] = [If_None_Match |-> "e1", If_Modified_Since |-> "m1"]
    /\ Is304(proc[1].fetch_results["a"])
    /\ proc[1].request_headers["b"] = [If_None_Match |-> NULL, If_Modified_Since |-> NULL]
    /\ get_feed_metadata(feeds, "a") = [etag |-> "e1", last_modified |-> "m1"]


(* ----------------------------------------------------------------------- *)
\* The entries of a response that have both a title and a link.
ValidEntries(res) == SelectSeq(res.entries, ValidEntry)

\* C29: a 200 feed with entries that lack a title or a link is not failed
\* for them, and when it has at least max_items entries with both, the run
\* executes exactly max_items upserts for it, wherever its invalid entries
\* are.
C29_SkipThenTruncate ==
    \A r \in Procs : \A f \in EnabledIds(r) :
        (AfterPersist(r) /\ Healthy(proc[r].fetch_results[f])) =>
            /\ ErrorsOf(r, f) = {}
            /\ Len(ValidEntries(proc[r].fetch_results[f])) >= MaxItems =>
                  Len(WritesOf(r, f)) = MaxItems


(* ----------------------------------------------------------------------- *)
\* Run r is in FETCH: its executor is open or about to be left.
InFetch(r) == proc[r].pc = "fetch"

C30_FetchState ==
    \A r \in Procs :
        /\ InFetch(r) =>
              /\ proc[r].session = "none"
              /\ proc[r].tx = NoTx
              /\ \A f \in EnabledIds(r) : feeds[f] # NoRow
        /\ proc[r].session = "persist" <=> proc[r].pc = "persist"
        /\ proc[r].pc = "persist" =>
              \A f \in EnabledIds(r) : proc[r].fetch_results[f] # NoResult

C30_FetchStep ==
    \A r \in Procs :
        (InFetch(r) /\ proc'[r].fetch_results # proc[r].fetch_results) =>
            /\ UNCHANGED <<store, ids, rateLimitsTable>>
            /\ proc'[r].tx = NoTx
            /\ proc'[r].session = "none"

\* C30: while a run is in FETCH it has no database session and no pending
\* write: the writes of PREPARE are committed before the first fetch, the
\* PERSIST session exists only once every fetch has a result, and a step in
\* which a fetch completes touches no table.
C30_NoSessionInFetch == [](C30_FetchState) /\ [][C30_FetchStep]_vars

\* A second run is in FETCH with the result of feed b in and that of feed a
\* outstanding: the Feed rows of both are committed, the items of the first
\* run are in the store, and the run has no session.
C30_Witness ==
    /\ InFetch(1)
    /\ proc[1].fetch_results["b"] # NoResult
    /\ proc[1].fetch_results["a"] = NoResult
    /\ feeds["a"] # NoRow /\ feeds["b"] # NoRow
    /\ items # {}
    /\ proc[1].session = "none"


(* ----------------------------------------------------------------------- *)
\* The columns of a Feed row that the fetch outcome owns.
FetchColumns(row) ==
    [etag |-> row.etag, last_modified |-> row.last_modified,
     last_fetched_at |-> row.last_fetched_at]

\* The columns of a Feed row that the configuration entry owns.
ConfigColumns(row) ==
    [id |-> row.id, name |-> row.name, url |-> row.url,
     category |-> row.category_default, language |-> row.language,
     enabled |-> row.enabled]

\* C31: upsert_feed creates the Feed row of the entry's id or updates it:
\* afterwards the row's name, url, category_default, language and enabled
\* are the entry's, an existing row keeps its etag, last_modified and
\* last_fetched_at, no other row is touched, and a second upsert of the same
\* entry changes nothing.
C31_UpsertFeed ==
    \A fd \in FeedEntries :
        LET once == upsert_feed(feeds, fd)
            twice == upsert_feed(once, fd)
        IN
        /\ once[fd.id] # NoRow
        /\ ConfigColumns(once[fd.id]) = fd
        /\ feeds[fd.id] # NoRow =>
              FetchColumns(once[fd.id]) = FetchColumns(feeds[fd.id])
        /\ feeds[fd.id] = NoRow =>
              FetchColumns(once[fd.id]) =
                  [etag |-> NULL, last_modified |-> NULL, last_fetched_at |-> NoTime]
        /\ \A g \in FeedIds \ {fd.id} : once[g] = feeds[g]
        /\ twice = once

\* Feed a has been registered and fetched: its row holds validators and a
\* fetch time, and an entry with another name and enabled = false would
\* change it.
C31_Witness ==
    /\ feeds["a"] # NoRow
    /\ feeds["a"].etag = "e1" /\ feeds["a"].last_modified = "m1"
    /\ feeds["a"].last_fetched_at # NoTime
    /\ feeds["a"].name = "n1" /\ feeds["a"].enabled
    /\ upsert_feed(feeds, FeedEntry("a", "n2", FALSE)) # feeds


(* ----------------------------------------------------------------------- *)
\* The seconds a call waits between its attempts when it uses them all:
\* 2^0 + 2^1 + ... + 2^(FETCH_RETRIES - 2).
AllWaits == 2 ^ (FETCH_RETRIES - 1) - 1

\* C32 as stated: a call of fetch_rss_feed, with its attempts and its waits
\* between attempts, takes at most FETCH_RETRIES x timeout seconds.
C32_RetriesTimesTimeout == call.elapsed <= FETCH_RETRIES * call.timeout

\* C32: a call of fetch_rss_feed, with its attempts and its waits between
\* attempts, takes at most FETCH_RETRIES x timeout seconds plus the waits of
\* 1 and 2 seconds, where timeout is at most FETCH_TIMEOUT and every attempt
\* takes at most timeout seconds; a call that has not waited stays within
\* the time of its attempts.
C32_SlotTime ==
    /\ call.timeout <= FETCH_TIMEOUT
    /\ call.elapsed <= FETCH_RETRIES * call.timeout + AllWaits
    /\ call.elapsed <= Len(call.trace) * call.timeout + AllWaits
    /\ call.slept = <<>> => call.elapsed <= Len(call.trace) * call.timeout

\* A call with the timeout of 5 seconds has ended after three timeouts and
\* waits of 1 and 2 seconds: 18 seconds.
C32_Witness ==
    /\ Ended
    /\ call.timeout = FETCH_TIMEOUT
    /\ Len(call.trace) = FETCH_RETRIES
    /\ \A k \in DOMAIN call.trace : IsTimeout(call.trace[k])
    /\ call.slept = <<1, 2>>
    /\ call.elapsed = FETCH_RETRIES * FETCH_TIMEOUT + 3


(* ----------------------------------------------------------------------- *)
\* The handlers whose call of _get_gemini_client has returned.
Served == {c \in Callers : gemini.callers[c].pc = "returned"}

\* C33: a process constructs at most one client object, and every call of
\* _get_gemini_client that has returned has returned that object, also when
\* several requests were waiting for the first use of the client.
C33_OneClient ==
    /\ gemini.constructed <= 1
    /\ gemini.client \in {NoClient, 1}
    /\ \A c \in Served :
          /\ gemini.callers[c].got # NoClient
          /\ gemini.callers[c].got = gemini.client
    /\ \A c, d \in Served : gemini.callers[c].got = gemini.callers[d].got

\* Three requests were waiting when the client was first used, and the
\* calls of all three have returned.
C33_Witness ==
    /\ gemini.first_users = Callers
    /\ Served = Callers
    /\ gemini.constructed = 1


(* ----------------------------------------------------------------------- *)
\* C34: in every run that has been finalized, whatever the outcomes of its
\* fetches, parses, item writes and feed metadata writes, the enabled feeds
\* are counted once each: feeds_succeeded + feeds_failed = total_feeds, in
\* the run's counters and in its Run row.
C34_CountedOnce ==
    \A r \in Procs :
        proc[r].pc \in {"cleanup", "done"} =>
            /\ proc[r].feeds_succeeded + proc[r].feeds_failed = proc[r].total_feeds
            /\ \A run \in RunRows(r) :
                  run.feeds_succeeded + run.feeds_failed = run.total_feeds

\* C35: for a feed counted as failed (its fetch failed, its status was
\* neither 200 nor 304, or an error was raised while its 200 response was
\* handled), the run that has committed PERSIST has left the feed's etag,
\* last_modified and last_fetched_at and its Item rows as they were when
\* the run was called.
C35_FailedFeedUntouched ==
    \A r \in Procs : \A f \in EnabledIds(r) :
        (/\ proc[r].pc = "finalize"
         /\ proc[r].startFeeds[f] # NoRow
         /\ ErrorsOf(r, f) # {}) =>
            /\ feeds[f] = proc[r].startFeeds[f]
            /\ ItemsOf(items, f) = ItemsOf(proc[r].startItems, f)


(* ----------------------------------------------------------------------- *)
\* Run r commits PERSIST in this step.
CommitsPersist(r) == proc[r].pc = "persist" /\ proc'[r].pc = "finalize"

\* C36: the commit of a run whose fetch of a feed returned 304 leaves the
\* etag and last_modified of the Feed row as they are in the store, also
\* when an overlapping run has stored new validators since the run read the
\* feed's metadata in PREPARE.
C36_NoStaleOverwrite ==
    [][\A r \in Procs : \A f \in EnabledIds(r) :
          (CommitsPersist(r) /\ Is304(proc[r].fetch_results[f])) =>
              /\ feeds'[f].etag = feeds[f].etag
              /\ feeds'[f].last_modified = feeds[f].last_modified]_vars


(* ----------------------------------------------------------------------- *)
\* The writes run r has executed in its open PERSIST transaction.
OpenTx(r) == proc[r].tx

C37_CommitStep ==
    \A r \in Procs :
        /\ (proc[r].pc = "persist" /\ proc'[r] # proc[r] /\ ~CommitsPersist(r)) =>
              /\ proc'[r].pc \in {"persist", "raised"}
              /\ items' = items /\ feeds' = feeds /\ errors' = errors
        /\ (proc[r].pc = "persist" /\ proc'[r].pc = "raised") =>
              OpenTx(r)' = NoTx
        /\ CommitsPersist(r) =>
              /\ OpenTx(r).items \subseteq items'
              /\ OpenTx(r).errors \subseteq errors'
              /\ \A f \in FeedIds :
                    feeds'[f] = IF OpenTx(r).feeds[f] # NoRow
                                THEN OpenTx(r).feeds[f] ELSE feeds[f]
              /\ \A it \in items' : it \in items \/ it \in OpenTx(r).items
              /\ errors' \ errors = OpenTx(r).errors
              /\ OpenTx(r)' = NoTx

\* C37: the items, feeds and feed_run_errors tables do not change while a
\* run is in PERSIST; the commit that ends PERSIST publishes all the item
\* upserts, feed metadata updates and FeedRunError rows of the run in one
\* step; a PERSIST that ends in an exception publishes none of them.
C37_AtomicPersist == [][C37_CommitStep]_vars

\* A run was aborted in PERSIST after it had executed item upserts, and the
\* items table holds none of them.
C37_Witness ==
    /\ proc[1].pc = "raised"
    /\ proc[1].fault = "feed_write"
    /\ Len(proc[1].writes) > 0
    /\ proc[1].startItems = {}
    /\ items = {} /\ errors = {}


(* ----------------------------------------------------------------------- *)
\* C38: every Item row's feed_id names an existing Feed row, and every
\* FeedRunError row's run_id names an existing Run row and its feed_id an
\* existing Feed row, in every state of the store: after a run, after a
\* sweep that deletes a Run whose FeedRunError rows have not expired, and
\* after a feed has been removed from the configuration.
C38_ReferentialIntegrity ==
    /\ \A it \in items : feeds[it.feed_id] # NoRow
    /\ \A e \in errors :
          /\ \E run \in runs : run.id = e.run_id
          /\ feeds[e.feed_id] # NoRow

\* The second run has swept the store one retention period after the first
\* run started: the first run's Run row had expired and is deleted, its
\* FeedRunError row for feed a, written a minute later, had not expired and
\* is deleted with it; feed b, removed from the configuration, is gone.
C38_Witness ==
    /\ proc[1].pc = "done"
    /\ started = 2
    /\ rateLimitsTable
    /\ proc[1].prev.config = CfgAB
    /\ proc[1].config = CfgA
    /\ proc[1].prev.fetch_results["a"] = NotFound404
    /\ proc[1].prev.fetch_results["b"] = NotFound404
    /\ clock = Days(RUNS_RETENTION_DAYS) + 1
    /\ \A run \in runs : run.id = proc[1].run_id /\ run.started_at = clock
    /\ runs # {}
    /\ feeds["b"] = NoRow
    /\ \A e \in errors : e.run_id = proc[1].run_id


(* ----------------------------------------------------------------------- *)
\* The feeds the configuration of run r lists with enabled = false.
DisabledIds(r) ==
    {proc[r].config[k].id : k \in {n \in DOMAIN proc[r].config : ~proc[r].config[n].enabled}}

C39_DisabledState ==
    \A r \in Procs : \A f \in DisabledIds(r) :
        /\ proc[r].total_feeds = Len(proc[r].config) - Cardinality(DisabledIds(r))
        /\ proc[r].fetch_results[f] = NoResult
        /\ f \notin Range(proc[r].completed)
        /\ WritesOf(r, f) = <<>>
        /\ proc[r].tx.feeds[f] = NoRow
        /\ ItemsOf(proc[r].tx.items, f) = {}
        /\ \A e \in errors \cup proc[r].tx.errors :
              e.run_id = proc[r].run_id => e.feed_id # f

C39_DisabledStep ==
    \A r \in Procs : \A f \in DisabledIds(r) :
        (proc[r].pc \in {"removal", "runrow", "prepare", "fetch", "persist", "finalize"}
            /\ proc'[r].config = proc[r].config) =>
            /\ feeds'[f] = feeds[f]
            /\ ItemsOf(items', f) = ItemsOf(items, f)

\* C39: a feed the configuration lists with enabled = false is not fetched,
\* is not counted in total_feeds, gets no item upsert and no FeedRunError
\* in the run, and its Feed row and Item rows are changed by no step of the
\* run before the sweep: neither by the removal of feeds absent from the
\* configuration, nor by the upserts of PREPARE, nor by PERSIST.
C39_DisabledFeed == [](C39_DisabledState) /\ [][C39_DisabledStep]_vars

\* A run with feed b disabled has returned after a run in which b was
\* enabled: b's Feed row, with the validators stored then, and b's Item
\* rows are still there, and the run counted one feed.
C39_Witness ==
    /\ proc[1].pc = "done"
    /\ proc[1].config = CfgAoffB
    /\ proc[1].prev.config = CfgAB
    /\ proc[1].total_feeds = 1
    /\ feeds["b"] # NoRow
    /\ feeds["b"].etag = "e1"
    /\ feeds["b"].enabled
    /\ ItemsOf(items, "b") # {}
    /\ proc[1].fetch_results["b"] = NoResult


(* ----------------------------------------------------------------------- *)
\* The rows of address ip whose requested_at lies in the 5-minute window
\* that ends at minute t.
RecordedInWindow(ip, t) ==
    RowsBetween(limiter.rows, ip, t - RATE_LIMIT_WINDOW_MINUTES, t)

C40_WindowState ==
    \A ip \in IPs : \A t \in Minutes :
        RecordedInWindow(ip, t) <= RATE_LIMIT_MAX_REQUESTS

C40_RejectStep ==
    \A p \in Instances :
        (limiter.checks[p].pc = "rejected" \/ limiter'.checks[p].pc = "rejected") =>
            (limiter'.checks[p] # limiter.checks[p] => limiter'.rows = limiter.rows)

\* C40: for every address and every 5-minute window, the rate_limits rows
\* of the address with requested_at in the window are at most
\* RATE_LIMIT_MAX_REQUESTS, whichever way the checks of several instances
\* interleave, and the steps of a rejected check add no row.
C40_RateLimit == [](C40_WindowState) /\ [][C40_RejectStep]_vars

====
